---- MODULE Spec2Model ----
(***************************************************************************)
(* A model of claude-watch-tui's session resolution engine:                *)
(*   src/src/session.rs  (tail reader, record scan, status classifier,     *)
(*                        running-session resolver, historical merge)      *)
(*   src/src/tmux.rs     (pane location formatting)                        *)
(*                                                                         *)
(* Text is modelled as a sequence of one-character strings, a file as a    *)
(* sequence of bytes (the atoms LF, CR and letters), an Option as the      *)
(* record None or Some(x).                                                 *)
(***************************************************************************)
EXTENDS Integers, Sequences, FiniteSets, TLC

\* Option<T>: None, or Some(x)
None == [some |-> FALSE]
Some(x) == [some |-> TRUE, val |-> x]
IsSome(o) == o.some

VARIABLES
    \* ---- read_last_lines (session.rs:428-489), one chunk per step
    rl_file,        \* Some(the file's bytes), or None when it cannot be opened
    rl_n,           \* the parameter n
    rl_pc,          \* "start" | "loop" | "done"
    rl_pos,         \* local pos
    rl_lines,       \* local lines (most recent first until the final reverse)
    rl_remainder,   \* local remainder
    rl_result,      \* the returned Option<Vec<String>>
    rl_reads,       \* history: the <<pos, read_size>> of every chunk read so far
    \* ---- determine_status (session.rs:491-537)
    ds_in,          \* the six arguments
    ds_out,         \* Some(the returned status) once called
    \* ---- the scan of a tail (parse_project_session, session.rs:328-404)
    sc_lines,       \* the lines read_last_lines returned, oldest first
    sc_recent,      \* recently_modified
    sc_out,         \* Some([acc: the scan's locals, summary: id, status, preview])
    \* ---- the resolver (get_sessions, get_all_sessions) and its environment
    proc_list,      \* what find_claude_processes returns, in its order
    shell_of,       \* what get_shell_pid returns for each pid
    panes,          \* what get_pane_map returns
    tmux_output,    \* what running tmux list-panes gives
    log_store,      \* the log store ~/.claude/projects
    clock,          \* SystemTime::now() / Utc::now()
    sessions,       \* the Vec<Session> the last call returned
    last_call,      \* "none" | "get_sessions" | "get_all_sessions"
    pairing,        \* history: the (process, directory, rank, file) pairs of the last call
    \* ---- convert_path_to_dir_name (session.rs:588-608, log_view.rs:151-171)
    cp_path,        \* the argument
    cp_out,         \* Some([session, log_view]: what each copy returned) once called
    \* ---- App (main.rs:40-156); App.sessions is the variable sessions
    ap_selected,        \* App.selected
    ap_log_messages,    \* App.log_messages
    ap_last_log_mtime,  \* App.last_log_mtime
    ap_view_mode,       \* App.view_mode
    ap_should_quit,     \* App.should_quit
    ap_op,              \* history: the handler that ran last
    ap_effect,          \* history: the OS calls and fetches of the handler that ran last
    \* ---- find_claude_processes (process.rs:23-84)
    pf_table,       \* the processes of the System snapshot, by pid
    pf_result       \* Some(what find_claude_processes returned) once called

rl_vars == <<rl_file, rl_n, rl_pc, rl_pos, rl_lines, rl_remainder, rl_result, rl_reads>>
ds_vars == <<ds_in, ds_out>>
sc_vars == <<sc_lines, sc_recent, sc_out>>
rs_vars == <<proc_list, shell_of, panes, tmux_output, log_store, clock, sessions, last_call, pairing>>

cp_vars == <<cp_path, cp_out>>
ap_vars == <<ap_selected, ap_log_messages, ap_last_log_mtime, ap_view_mode,
             ap_should_quit, ap_op, ap_effect>>

pf_vars == <<pf_table, pf_result>>

vars == <<rl_vars, ds_vars, sc_vars, rs_vars, cp_vars, ap_vars, pf_vars>>

\* what each component leaves alone
not_rl == <<ds_vars, sc_vars, rs_vars, cp_vars, ap_vars, pf_vars>>
not_ds == <<rl_vars, sc_vars, rs_vars, cp_vars, ap_vars, pf_vars>>
not_sc == <<rl_vars, ds_vars, rs_vars, cp_vars, ap_vars, pf_vars>>
not_rs == <<rl_vars, ds_vars, sc_vars, cp_vars, ap_vars, pf_vars>>
not_cp == <<rl_vars, ds_vars, sc_vars, rs_vars, ap_vars, pf_vars>>
not_ap == <<rl_vars, ds_vars, sc_vars, cp_vars, pf_vars>>
not_pf == <<rl_vars, ds_vars, sc_vars, rs_vars, cp_vars, ap_vars>>

----------------------------------------------------------------------------
(* Generic helpers on sequences.                                           *)

Min(a, b) == IF a < b THEN a ELSE b
Max(a, b) == IF a < b THEN b ELSE a

\* s[from..] of Rust (0-based from), as a TLA+ sequence
DropFirst(s, k) == SubSeq(s, k + 1, Len(s))
TakeFirst(s, k) == SubSeq(s, 1, Min(k, Len(s)))
Reverse(s) == [i \in 1..Len(s) |-> s[Len(s) + 1 - i]]

\* all sequences over S of length at most n
SeqsUpTo(S, n) == UNION {[1..k -> S] : k \in 0..n}

----------------------------------------------------------------------------
(* The status classifier: determine_status.                                *)

Thinking == "Thinking"
Processing == "Processing"
Waiting == "Waiting"
Idle == "Idle"
SessionStatus == {Thinking, Processing, Waiting, Idle}

\* the role argument: Option<&str>; "system" stands for every other string
Roles == {Some("assistant"), Some("user"), Some("system"), None}

\* a mutation of determine_status: the user branch forgets the interrupt marker
DetermineStatusNoInterrupt(role, has_tool_use, has_tool_result, is_local_command, is_interrupted, recently_modified) ==
    IF role = Some("assistant")
    THEN IF recently_modified THEN Processing ELSE Waiting
    ELSE IF role = Some("user")
    THEN IF is_local_command THEN Waiting
         ELSE IF recently_modified THEN Thinking ELSE Waiting
    ELSE IF recently_modified THEN Thinking ELSE Idle

\* a mutation of DetermineStatus: an assistant record with a tool call is
\* Waiting whatever the age of the file
DetermineStatusToolUseWaits(role, has_tool_use, has_tool_result, is_local_command, is_interrupted, recently_modified) ==
    IF role = Some("assistant")
    THEN IF has_tool_use
         THEN Waiting
         ELSE IF recently_modified THEN Processing ELSE Waiting
    ELSE IF role = Some("user")
    THEN IF is_local_command \/ is_interrupted
         THEN Waiting
         ELSE IF recently_modified THEN Thinking ELSE Waiting
    ELSE IF recently_modified THEN Thinking ELSE Idle

DetermineStatus(role, has_tool_use, has_tool_result, is_local_command, is_interrupted, recently_modified) ==
    IF role = Some("assistant")
    THEN IF has_tool_use
         THEN IF recently_modified THEN Processing ELSE Waiting
         ELSE IF recently_modified THEN Processing ELSE Waiting
    ELSE IF role = Some("user")
    THEN IF is_local_command \/ is_interrupted
         THEN Waiting
         ELSE IF has_tool_result
         THEN IF recently_modified THEN Thinking ELSE Waiting
         ELSE IF recently_modified THEN Thinking ELSE Waiting
    ELSE IF recently_modified THEN Thinking ELSE Idle

DsInputs ==
    [role : Roles, has_tool_use : BOOLEAN, has_tool_result : BOOLEAN,
     is_local_command : BOOLEAN, is_interrupted : BOOLEAN,
     recently_modified : BOOLEAN]

DsInit ==
    /\ ds_in \in DsInputs
    /\ ds_out = None

DsOff ==
    /\ ds_in = [role |-> None, has_tool_use |-> FALSE, has_tool_result |-> FALSE,
                is_local_command |-> FALSE, is_interrupted |-> FALSE,
                recently_modified |-> FALSE]
    /\ ds_out = None

\* one call of determine_status on the arguments in ds_in
DsCall ==
    /\ ds_out = None
    /\ ds_out' = Some(DetermineStatus(ds_in.role, ds_in.has_tool_use,
                                      ds_in.has_tool_result, ds_in.is_local_command,
                                      ds_in.is_interrupted, ds_in.recently_modified))
    /\ UNCHANGED ds_in
    /\ UNCHANGED not_ds

\* the caller passes the next arguments
DsNextInput ==
    /\ ds_out # None
    /\ ds_in' \in DsInputs
    /\ ds_out' = None
    /\ UNCHANGED not_ds

----------------------------------------------------------------------------
(* The tail reader: read_last_lines.                                       *)

LF == "LF"
CR == "CR"
Bytes == {LF, CR, "a"}

\* bounds of the tail reader's inputs
MaxFileLen == 6
MaxN == 3
\* the 32 KiB chunk, scaled down; the whole-read threshold stays twice the chunk
ChunkSize == 2
SmallFileLimit == 2 * ChunkSize

\* One line without its terminator: str::lines and BufRead::lines both drop a
\* final LF and then a CR in front of it; a piece that does not end in LF (the
\* last one of the text) is kept as it is, a bare CR at its end included.
StripLineEnding(piece) ==
    IF piece # <<>> /\ piece[Len(piece)] = LF
    THEN LET body == SubSeq(piece, 1, Len(piece) - 1)
         IN IF body # <<>> /\ body[Len(body)] = CR
            THEN SubSeq(body, 1, Len(body) - 1)
            ELSE body
    ELSE piece

\* split_inclusive('\n'): the pieces of s, each ending with its LF except
\* possibly the last; no piece for an empty rest.
RECURSIVE SplitInclusive(_, _)
SplitInclusive(s, cur) ==
    IF s = <<>> THEN (IF cur = <<>> THEN <<>> ELSE <<cur>>)
    ELSE IF Head(s) = LF
         THEN <<Append(cur, LF)>> \o SplitInclusive(Tail(s), <<>>)
         ELSE SplitInclusive(Tail(s), Append(cur, Head(s)))

\* str::lines() on the decoded chunk
StrLines(s) ==
    LET pieces == SplitInclusive(s, <<>>)
    IN [i \in 1..Len(pieces) |-> StripLineEnding(pieces[i])]

\* BufReader::lines().flatten().collect() on the whole file
BufReadLines(bytes) == StrLines(bytes)

\* lines[lines.len().saturating_sub(n)..]
LastN(ls, n) == DropFirst(ls, Max(Len(ls) - n, 0))

\* for line in chunk_lines.into_iter().rev() { lines.push(line); if lines.len() >= n {break} }
RECURSIVE PushReversed(_, _, _)
PushReversed(lines, chunk_lines, n) ==
    IF chunk_lines = <<>> THEN lines
    ELSE LET pushed == Append(lines, chunk_lines[Len(chunk_lines)])
         IN IF Len(pushed) >= n THEN pushed
            ELSE PushReversed(pushed, SubSeq(chunk_lines, 1, Len(chunk_lines) - 1), n)

RlInit ==
    /\ rl_file \in {Some(b) : b \in SeqsUpTo(Bytes, MaxFileLen)} \cup {None}
    /\ rl_n \in 0..MaxN
    /\ rl_pc = "start"
    /\ rl_pos = 0
    /\ rl_lines = <<>>
    /\ rl_remainder = <<>>
    /\ rl_result = None
    /\ rl_reads = <<>>

\* session.rs:429-449: open, the empty file, the whole read of a small file,
\* or the set-up of the chunk loop
RlOpen ==
    /\ rl_pc = "start"
    /\ IF ~IsSome(rl_file)
       THEN /\ rl_result' = None
            /\ rl_pc' = "done"
            /\ UNCHANGED <<rl_pos, rl_lines, rl_remainder>>
       ELSE IF Len(rl_file.val) = 0
       THEN /\ rl_result' = Some(<<>>)
            /\ rl_pc' = "done"
            /\ UNCHANGED <<rl_pos, rl_lines, rl_remainder>>
       ELSE IF Len(rl_file.val) < SmallFileLimit
       THEN /\ rl_result' = Some(LastN(BufReadLines(rl_file.val), rl_n))
            /\ rl_pc' = "done"
            /\ UNCHANGED <<rl_pos, rl_lines, rl_remainder>>
       ELSE /\ rl_pc' = "loop"
            /\ rl_pos' = Len(rl_file.val)
            /\ rl_lines' = <<>>
            /\ rl_remainder' = <<>>
            /\ UNCHANGED rl_result
    /\ UNCHANGED <<rl_file, rl_n, rl_reads>>
    /\ UNCHANGED not_rl

\* a mutation of ReadSize: one byte at a time
ReadSizeOneByte(pos) == Min(1, pos)

\* session.rs:453: chunk_size.min(pos)
ReadSize(pos) == Min(ChunkSize, pos)

\* session.rs:452-479: one iteration of the while loop
RlChunk ==
    /\ rl_pc = "loop"
    /\ Len(rl_lines) < rl_n /\ rl_pos > 0
    /\ LET read_size == ReadSize(rl_pos)
           pos == rl_pos - read_size
           chunk == SubSeq(rl_file.val, pos + 1, pos + read_size)
           combined == chunk \o rl_remainder
           chunk_lines == StrLines(combined)
           partial == pos > 0 /\ chunk_lines # <<>>
           rest == IF partial THEN Tail(chunk_lines) ELSE chunk_lines
       IN /\ rl_pos' = pos
          /\ rl_remainder' = IF partial THEN Head(chunk_lines) ELSE <<>>
          /\ rl_lines' = PushReversed(rl_lines, rest, rl_n)
          /\ rl_reads' = Append(rl_reads, <<pos, read_size>>)
    /\ UNCHANGED <<rl_file, rl_n, rl_pc, rl_result>>
    /\ UNCHANGED not_rl

\* session.rs:481-488: after the loop
RlFinish ==
    /\ rl_pc = "loop"
    /\ ~(Len(rl_lines) < rl_n /\ rl_pos > 0)
    /\ LET lines == IF rl_remainder # <<>> /\ Len(rl_lines) < rl_n
                    THEN Append(rl_lines, rl_remainder)
                    ELSE rl_lines
       IN rl_result' = Some(Reverse(lines))
    /\ rl_pc' = "done"
    /\ UNCHANGED <<rl_file, rl_n, rl_pos, rl_lines, rl_remainder, rl_reads>>
    /\ UNCHANGED not_rl

\* the tail reader at rest, for the specifications that do not run it
RlOff ==
    /\ rl_file = None /\ rl_n = 0 /\ rl_pc = "done" /\ rl_pos = 0
    /\ rl_lines = <<>> /\ rl_remainder = <<>> /\ rl_result = None /\ rl_reads = <<>>

----------------------------------------------------------------------------
(* The record extractor and the scan of the tail (parse_project_session,   *)
(* session.rs:330-404).                                                    *)
(*                                                                         *)
(* A line of a log file is modelled by what serde_json makes of it:        *)
(* Garbage when it does not deserialize into JsonlMessage, and otherwise   *)
(* the record [session_id, message], message being None or                 *)
(* Some([role, content]) and content None or Some(a serde_json::Value).    *)

\* serde_json::Value, as far as the code distinguishes its variants
StrValue(s) == [kind |-> "str", s |-> s]
ArrValue(items) == [kind |-> "arr", items |-> items]
OtherValue == [kind |-> "other"]

\* an element of a content array: its "type" and "text" members, each
\* Some(string) when present and a string
Item(type, text) == [type |-> type, text |-> text]

Garbage == [ok |-> FALSE]
Msg(session_id, message) == [ok |-> TRUE, session_id |-> session_id, message |-> message]
MessageContent(role, content) == [role |-> role, content |-> content]

LOCAL_COMMANDS ==
    << <<"/", "c", "l", "e", "a", "r">>,
       <<"/", "c", "o", "m", "p", "a", "c", "t">>,
       <<"/", "h", "e", "l", "p">>,
       <<"/", "c", "o", "n", "f", "i", "g">>,
       <<"/", "c", "o", "s", "t">>,
       <<"/", "d", "o", "c", "t", "o", "r">>,
       <<"/", "i", "n", "i", "t">>,
       <<"/", "l", "o", "g", "i", "n">>,
       <<"/", "l", "o", "g", "o", "u", "t">>,
       <<"/", "m", "e", "m", "o", "r", "y">>,
       <<"/", "m", "o", "d", "e", "l">>,
       <<"/", "p", "e", "r", "m", "i", "s", "s", "i", "o", "n", "s">>,
       <<"/", "p", "r", "-", "c", "o", "m", "m", "e", "n", "t", "s">>,
       <<"/", "r", "e", "v", "i", "e", "w">>,
       <<"/", "s", "t", "a", "t", "u", "s">>,
       <<"/", "t", "e", "r", "m", "i", "n", "a", "l", "-", "s", "e", "t", "u", "p">>,
       <<"/", "v", "i", "m">> >>

INTERRUPT_MARKER ==
    <<"[", "R", "e", "q", "u", "e", "s", "t", " ", "i", "n", "t", "e", "r", "r", "u", "p", "t", "e", "d", " ", "b", "y", " ", "u", "s", "e", "r", "]">>

WhiteSpace == {" ", LF, CR}

\* str::contains
Contains(text, pat) ==
    \E i \in 1..(Len(text) - Len(pat) + 1) : SubSeq(text, i, i + Len(pat) - 1) = pat

\* str::starts_with
StartsWith(text, pat) ==
    Len(text) >= Len(pat) /\ SubSeq(text, 1, Len(pat)) = pat

\* str::trim
RECURSIVE TrimStart(_)
TrimStart(text) ==
    IF text # <<>> /\ Head(text) \in WhiteSpace THEN TrimStart(Tail(text)) ELSE text
Trim(text) == Reverse(TrimStart(Reverse(TrimStart(text))))

\* arr.iter().find_map(..): the first non-empty "text" member of an item
RECURSIVE FirstItemText(_)
FirstItemText(items) ==
    IF items = <<>> THEN None
    ELSE IF IsSome(Head(items).text) /\ Head(items).text.val # <<>>
         THEN Head(items).text
         ELSE FirstItemText(Tail(items))

ExtractText(content) ==
    CASE content.kind = "str" /\ content.s # <<>> -> Some(content.s)
      [] content.kind = "arr" -> FirstItemText(content.items)
      [] OTHER -> None

CheckContentType(content, type_name) ==
    IF content.kind = "arr"
    THEN \E i \in 1..Len(content.items) : content.items[i].type = Some(type_name)
    ELSE FALSE

CheckInterrupted(content) ==
    LET text == ExtractText(content)
    IN IF IsSome(text) THEN Contains(text.val, INTERRUPT_MARKER) ELSE FALSE

CheckLocalCommand(content) ==
    LET text == ExtractText(content)
    IN IF ~IsSome(text) THEN FALSE
       ELSE LET trimmed == Trim(text.val)
            IN \E k \in 1..Len(LOCAL_COMMANDS) :
                  \/ trimmed = LOCAL_COMMANDS[k]
                  \/ StartsWith(trimmed, Append(LOCAL_COMMANDS[k], " "))

\* session.rs:346-350
HasContent(c) ==
    CASE c.kind = "str" -> c.s # <<>>
      [] c.kind = "arr" -> c.items # <<>>
      [] OTHER -> FALSE

\* session.rs:330-336: the locals of the scan
ScanStart ==
    [session_id |-> None, last_role |-> None, has_tool_use |-> FALSE,
     has_tool_result |-> FALSE, last_message |-> None,
     is_local_command |-> FALSE, is_interrupted |-> FALSE]

\* session.rs:340-368: what one parsed record does to the locals
ScanRecord(acc, msg) ==
    LET a1 == IF ~IsSome(acc.session_id)
              THEN [acc EXCEPT !.session_id = msg.session_id]
              ELSE acc
    IN IF /\ IsSome(msg.message)
          /\ IsSome(msg.message.val.content)
          /\ HasContent(msg.message.val.content.val)
       THEN LET content == msg.message.val
                c == content.content.val
                a2 == IF ~IsSome(a1.last_role)
                      THEN [a1 EXCEPT !.last_role = content.role,
                                      !.has_tool_use = CheckContentType(c, "tool_use"),
                                      !.has_tool_result = CheckContentType(c, "tool_result"),
                                      !.is_local_command = CheckLocalCommand(c),
                                      !.is_interrupted = CheckInterrupted(c)]
                      ELSE a1
            IN IF ~IsSome(a2.last_message)
               THEN [a2 EXCEPT !.last_message = ExtractText(c)]
               ELSE a2
       ELSE a1

\* session.rs:371: the scan has all it needs
\* a mutation of ScanComplete: the scan stops without waiting for a text
ScanCompleteWithoutText(acc) == IsSome(acc.session_id) /\ IsSome(acc.last_role)

ScanComplete(acc) ==
    IsSome(acc.session_id) /\ IsSome(acc.last_role) /\ IsSome(acc.last_message)

\* a mutation of ScanStep: a line that does not parse discards the session
\* id found so far
ScanStepFailsOnGarbage(acc, line) ==
    IF ScanComplete(acc) THEN acc
    ELSE IF ~line.ok THEN [acc EXCEPT !.session_id = None]
    ELSE ScanRecord(acc, line)

\* session.rs:339-374: the loop body: a line that does not parse is passed
\* over, and after the `break` no line is looked at
ScanStep(acc, line) ==
    IF ScanComplete(acc) \/ ~line.ok THEN acc ELSE ScanRecord(acc, line)

\* session.rs:338-375: for line in lines.iter().rev(), over the lines hi down
\* to lo (the range is halved to keep the evaluation shallow)
RECURSIVE ScanRange(_, _, _, _)
ScanRange(lines, lo, hi, acc) ==
    IF ScanComplete(acc) \/ hi < lo THEN acc
    ELSE IF lo = hi THEN ScanStep(acc, lines[lo])
    ELSE ScanRange(lines, lo, (lo + hi) \div 2,
                   ScanRange(lines, ((lo + hi) \div 2) + 1, hi, acc))

\* the loop from line i down
ScanFrom(lines, i, acc) == ScanRange(lines, 1, i, acc)

ScanTail(lines) == ScanFrom(lines, Len(lines), ScanStart)

MESSAGE_TRUNCATE_LEN == 100

\* session.rs:398-404
\* a character that takes two bytes in UTF-8
WideChar == "e-acute"

\* str::len: the bytes of the text in UTF-8
Utf8Len(m) == Len(m) + Cardinality({i \in 1..Len(m) : m[i] = WideChar})

\* a mutation of TruncateMessage: the length is taken in bytes
TruncateMessageByBytes(m) ==
    IF Utf8Len(m) > MESSAGE_TRUNCATE_LEN
    THEN TakeFirst(m, MESSAGE_TRUNCATE_LEN) \o <<".", ".", ".">>
    ELSE m

TruncateMessage(m) ==
    IF Len(m) > MESSAGE_TRUNCATE_LEN
    THEN TakeFirst(m, MESSAGE_TRUNCATE_LEN) \o <<".", ".", ".">>
    ELSE m

\* a mutation of TailSummary: a tail without any session id gives the empty id
TailSummaryDefaultId(lines, recently_modified) ==
    Some([id |-> IF IsSome(ScanTail(lines).session_id)
                 THEN ScanTail(lines).session_id.val ELSE "",
          status |-> Idle,
          last_message |-> None])

\* session.rs:330-404: what the tail contributes to the Session: None when
\* no session id was found (`session_id?`), else its id, status and preview
TailSummary(lines, recently_modified) ==
    LET acc == ScanTail(lines)
    IN IF ~IsSome(acc.session_id) THEN None
       ELSE Some([id |-> acc.session_id.val,
                  status |-> DetermineStatus(acc.last_role, acc.has_tool_use,
                                             acc.has_tool_result, acc.is_local_command,
                                             acc.is_interrupted, recently_modified),
                  last_message |-> IF IsSome(acc.last_message)
                                   THEN Some(TruncateMessage(acc.last_message.val))
                                   ELSE None])

\* the texts and records the scan is run on
T_hi == <<"h", "i">>
T_ok == <<"o", "k">>
T_clear == <<" ", "/", "c", "l", "e", "a", "r", " ", "x">>

L_user_hi == Msg(Some("s1"), Some(MessageContent(Some("user"), Some(StrValue(T_hi)))))
L_asst_tool ==
    Msg(Some("s1"), Some(MessageContent(Some("assistant"),
                                        Some(ArrValue(<<Item(Some("tool_use"), None)>>)))))
L_asst_text ==
    Msg(Some("s2"), Some(MessageContent(Some("assistant"),
                                        Some(ArrValue(<<Item(Some("text"), Some(<<>>)),
                                                        Item(Some("text"), Some(T_ok))>>)))))
L_user_result ==
    Msg(None, Some(MessageContent(Some("user"),
                                  Some(ArrValue(<<Item(Some("tool_result"), None)>>)))))
L_user_clear == Msg(Some("s1"), Some(MessageContent(Some("user"), Some(StrValue(T_clear)))))
L_user_interrupt ==
    Msg(None, Some(MessageContent(Some("user"),
                                  Some(ArrValue(<<Item(Some("text"), Some(INTERRUPT_MARKER))>>)))))
L_summary == Msg(Some("s2"), None)
L_empty_content == Msg(Some("s1"), Some(MessageContent(Some("user"), Some(StrValue(<<>>)))))
L_no_role == Msg(Some("s1"), Some(MessageContent(None, Some(StrValue(T_ok)))))
L_empty_id == Msg(Some(""), Some(MessageContent(Some("system"), Some(OtherValue))))

\* texts at and around the truncation length: 100 and 101 characters, and
\* 60 characters of two bytes each
T_exact == [i \in 1..MESSAGE_TRUNCATE_LEN |-> "a"]
T_over == [i \in 1..(MESSAGE_TRUNCATE_LEN + 1) |-> IF i = MESSAGE_TRUNCATE_LEN + 1 THEN "z" ELSE "a"]
T_wide == [i \in 1..60 |-> WideChar]
L_exact == Msg(Some("s1"), Some(MessageContent(Some("user"), Some(StrValue(T_exact)))))
L_over == Msg(Some("s1"), Some(MessageContent(Some("assistant"), Some(StrValue(T_over)))))
L_wide == Msg(Some("s2"), Some(MessageContent(Some("user"), Some(StrValue(T_wide)))))

ScanLines ==
    {Garbage, L_user_hi, L_asst_tool, L_asst_text, L_user_result, L_user_clear,
     L_user_interrupt, L_summary, L_empty_content, L_no_role, L_empty_id,
     L_exact, L_over, L_wide}

\* the longest tail the scan is run on
MaxTail == 3

\* a new, empty log file
ScInit ==
    /\ sc_lines = <<>>
    /\ sc_recent \in BOOLEAN
    /\ sc_out = None

ScOff ==
    /\ sc_lines = <<>> /\ sc_recent = FALSE /\ sc_out = None

\* parse_project_session from the scan to the preview, on the tail sc_lines
ScCall ==
    /\ sc_out = None
    /\ sc_out' = Some([acc |-> ScanTail(sc_lines),
                       summary |-> TailSummary(sc_lines, sc_recent)])
    /\ UNCHANGED <<sc_lines, sc_recent>>
    /\ UNCHANGED not_sc

\* the session's process appends a line to the log file, now or a while ago
ScAppend ==
    /\ Len(sc_lines) < MaxTail
    /\ \E l \in ScanLines : sc_lines' = Append(sc_lines, l)
    /\ sc_recent' \in BOOLEAN
    /\ sc_out' = None
    /\ UNCHANGED not_sc

----------------------------------------------------------------------------
(* The path codec, pane locations and the orders used for sorting.         *)

\* a mutation of ConvertChars: the dot after a separator is kept
RECURSIVE ConvertCharsKeepsDot(_)
ConvertCharsKeepsDot(chars) ==
    IF chars = <<>> THEN <<>>
    ELSE IF Head(chars) = "/"
         THEN IF Len(chars) >= 2 /\ chars[2] = "."
              THEN <<"-", "-">> \o ConvertCharsKeepsDot(Tail(chars))
              ELSE <<"-">> \o ConvertCharsKeepsDot(Tail(chars))
         ELSE <<Head(chars)>> \o ConvertCharsKeepsDot(Tail(chars))

\* convert_path_to_dir_name, the loop over the characters after the prefix
RECURSIVE ConvertChars(_)
ConvertChars(chars) ==
    IF chars = <<>> THEN <<>>
    ELSE IF Head(chars) = "/"
         THEN IF Len(chars) >= 2 /\ chars[2] = "."
              THEN <<"-", "-">> \o ConvertChars(DropFirst(chars, 2))
              ELSE <<"-">> \o ConvertChars(Tail(chars))
         ELSE <<Head(chars)>> \o ConvertChars(Tail(chars))

ConvertPathToDirName(path) ==
    <<"-">> \o ConvertChars(IF path # <<>> /\ Head(path) = "/" THEN Tail(path) ELSE path)

\* log_view.rs:151-171: the copy of the codec in log_view.rs, its loop
RECURSIVE LogViewConvertChars(_, _)
LogViewConvertChars(chars, result) ==
    IF chars = <<>> THEN result
    ELSE IF Head(chars) = "/"
         THEN IF Tail(chars) # <<>> /\ Head(Tail(chars)) = "."
              THEN LogViewConvertChars(Tail(Tail(chars)), result \o <<"-", "-">>)
              ELSE LogViewConvertChars(Tail(chars), Append(result, "-"))
         ELSE LogViewConvertChars(Tail(chars), Append(result, Head(chars)))

LogViewConvertPathToDirName(path) ==
    LogViewConvertChars(IF path # <<>> /\ Head(path) = "/" THEN Tail(path) ELSE path,
                        <<"-">>)

\* the longest generated path
MaxPath == 5
PathChars == {"/", ".", "a", "-"}

P_foo ==
    <<"/", "U", "s", "e", "r", "s", "/", "m", "e", "/",
      "P", "r", "o", "j", "e", "c", "t", "s", "/", "f", "o", "o">>
P_hidden_foo ==
    <<"/", "U", "s", "e", "r", "s", "/", "m", "e", "/",
      "P", "r", "o", "j", "e", "c", "t", "s", "/", ".", "h", "i", "d", "d", "e", "n",
      "/", "f", "o", "o">>

\* the empty path and the two paths of the documentation
CpInit ==
    /\ cp_path \in {<<>>, P_foo, P_hidden_foo}
    /\ cp_out = None

CpOff ==
    /\ cp_path = <<>> /\ cp_out = None

\* both copies of convert_path_to_dir_name on cp_path
CpCall ==
    /\ cp_out = None
    /\ cp_out' = Some([session |-> ConvertPathToDirName(cp_path),
                       log_view |-> LogViewConvertPathToDirName(cp_path)])
    /\ UNCHANGED cp_path
    /\ UNCHANGED not_cp

\* the next path: one more character
CpExtend ==
    /\ Len(cp_path) < MaxPath
    /\ \E c \in PathChars : cp_path' = Append(cp_path, c)
    /\ cp_out' = None
    /\ UNCHANGED not_cp

\* path.split('/').filter(|s| !s.is_empty()).last().unwrap_or("Unknown")
RECURSIVE LastSegment(_, _, _)
LastSegment(path, cur, last) ==
    IF path = <<>> THEN (IF cur # <<>> THEN cur ELSE last)
    ELSE IF Head(path) = "/"
         THEN LastSegment(Tail(path), <<>>, IF cur # <<>> THEN cur ELSE last)
         ELSE LastSegment(Tail(path), Append(cur, Head(path)), last)

ProjectName(path) ==
    LastSegment(path, <<>>, <<"U", "n", "k", "n", "o", "w", "n">>)

\* the characters of pane location strings, in the order of their codes
AsciiOrder ==
    <<"-", "0", "1", "2", "3", "4", "5", "6", "7", "8", "9", ":",
      "a", "b", "c", "d", "e", "f", "g", "h", "i", "j", "k", "l", "m",
      "n", "o", "p", "q", "r", "s", "t", "u", "v", "w", "x", "y", "z">>
CharCode(c) == CHOOSE i \in 1..Len(AsciiOrder) : AsciiOrder[i] = c

\* String's Ord: a <= b, byte by byte
RECURSIVE StrLeq(_, _)
StrLeq(a, b) ==
    IF a = <<>> THEN TRUE
    ELSE IF b = <<>> THEN FALSE
    ELSE IF Head(a) = Head(b) THEN StrLeq(Tail(a), Tail(b))
    ELSE CharCode(Head(a)) < CharCode(Head(b))

\* Option<String>'s Ord: None first
OptStrLeq(x, y) ==
    IF ~IsSome(x) THEN TRUE
    ELSE IF ~IsSome(y) THEN FALSE
    ELSE StrLeq(x.val, y.val)

\* u32's Display
RECURSIVE Decimal(_)
Decimal(n) ==
    IF n < 10 THEN <<AsciiOrder[n + 2]>>
    ELSE Append(Decimal(n \div 10), AsciiOrder[(n % 10) + 2])

TmuxLocation(session, window_index, window_name) ==
    [session |-> session, window_index |-> window_index, window_name |-> window_name]

\* tmux.rs:12-16: "{session}:{window_index}"
FmtLocation(loc) == loc.session \o <<":">> \o Decimal(loc.window_index)

\* slice::sort_by, a stable sort: the element at i comes after every element
\* that Leq puts strictly in front of it and after the equal ones at smaller
\* indices
SortBy(seq, Leq(_, _)) ==
    LET n == Len(seq)
        Before(j, i) ==
            IF Leq(seq[j], seq[i]) /\ Leq(seq[i], seq[j]) THEN j < i
            ELSE Leq(seq[j], seq[i])
        Rank(i) == Cardinality({j \in 1..n : j # i /\ Before(j, i)}) + 1
    IN [k \in 1..n |-> seq[CHOOSE i \in 1..n : Rank(i) = k]]

----------------------------------------------------------------------------
(* The session resolver: get_sessions, parse_project_session and           *)
(* get_all_sessions.                                                       *)
(*                                                                         *)
(* The log store ~/.claude/projects is None when the home directory or the *)
(* store is missing, else Some(its subdirectories in read_dir order). A    *)
(* subdirectory is [name, files, index]; a file is [name, mtime, content], *)
(* its name split into [agent, stem, ext] ("agent-" prefix or not), mtime  *)
(* None when its metadata cannot be read and content None when it cannot   *)
(* be opened, else the file's lines as serde_json sees them; index is the  *)
(* sessions-index.json of the directory. Times are whole seconds.          *)

HISTORY_LIMIT == 20
JSONL_LINES_TO_SCAN == 100
RECENTLY_MODIFIED_THRESHOLD_SECS == 3
STALE_FILE_AGE_SECS == 999

ClaudeProcess(pid, cwd, cpu_usage) == [pid |-> pid, cwd |-> cwd, cpu_usage |-> cpu_usage]

FileName(agent, stem, ext) == [agent |-> agent, stem |-> stem, ext |-> ext]
File(name, mtime, content) == [name |-> name, mtime |-> mtime, content |-> content]
Dir(name, files, index) == [name |-> name, files |-> files, index |-> index]

\* sessions-index.json: absent, not deserializable into SessionIndex (serde
\* rejects the whole file when one entry is malformed), or its entries
NoIndex == [kind |-> "absent"]
BadIndex == [kind |-> "bad"]
Index(entries) == [kind |-> "ok", entries |-> entries]

\* a timestamp string: whether DateTime::parse_from_rfc3339 accepts it, and
\* the instant it then denotes
Rfc3339(t) == [rfc3339 |-> TRUE, t |-> t]
NotATime == [rfc3339 |-> FALSE, t |-> 0]

IndexEntry(session_id, full_path, first_prompt, message_count, created, modified, project_path, is_sidechain) ==
    [session_id |-> session_id, full_path |-> full_path, first_prompt |-> first_prompt,
     message_count |-> message_count, created |-> created, modified |-> modified,
     project_path |-> project_path, is_sidechain |-> is_sidechain]

\* session.rs:303-312: the files parse_project_session considers
IsJsonlFile(f) ==
    /\ f.name.ext = "jsonl" /\ ~f.name.agent
    /\ IsSome(f.mtime)

NewerFirst(a, b) == a.mtime.val >= b.mtime.val

\* session.rs:301-315
JsonlFiles(dir) == SortBy(SelectSeq(dir.files, IsJsonlFile), NewerFirst)

\* Vec::get with a zero-based index
Get(seq, index) == IF index < Len(seq) THEN Some(seq[index + 1]) ELSE None

\* session.rs:318: jsonl_files.get(jsonl_index)
PickJsonl(dir, jsonl_index) == Get(JsonlFiles(dir), jsonl_index)

\* session.rs:321-324
FileAge(now, mtime) == IF now >= mtime THEN now - mtime ELSE STALE_FILE_AGE_SECS

\* session.rs:328: read_last_lines on a log file of the store, each line
\* already deserialized; these files are below the whole-read threshold
ReadTailRecords(f, n) ==
    IF IsSome(f.content) THEN Some(LastN(f.content.val, n)) ELSE None

\* a mutation of RunningSession: the Session records the project path as the
\* path of its log
RunningSessionKeepsPath(summary, project_path, tmux_location, cpu_usage, file_age, pid) ==
    [id |-> summary.id,
     project_name |-> ProjectName(project_path),
     project_path |-> project_path,
     status |-> summary.status,
     last_message |-> summary.last_message,
     tmux_location |-> tmux_location,
     tmux_target |-> IF IsSome(tmux_location)
                     THEN Some(FmtLocation(tmux_location.val))
                     ELSE None,
     cpu_usage |-> cpu_usage,
     last_activity_secs |-> file_age,
     pid |-> Some(pid),
     is_running |-> TRUE,
     first_prompt |-> None,
     message_count |-> None,
     created_at |-> None,
     jsonl_path |-> Some(project_path)]

\* session.rs:380-424: the Session of a running process
RunningSession(summary, project_path, tmux_location, cpu_usage, file_age, pid) ==
    [id |-> summary.id,
     project_name |-> ProjectName(project_path),
     project_path |-> project_path,
     status |-> summary.status,
     last_message |-> summary.last_message,
     tmux_location |-> tmux_location,
     tmux_target |-> IF IsSome(tmux_location)
                     THEN Some(FmtLocation(tmux_location.val))
                     ELSE None,
     cpu_usage |-> cpu_usage,
     last_activity_secs |-> file_age,
     pid |-> Some(pid),
     is_running |-> TRUE,
     first_prompt |-> None,
     message_count |-> None,
     created_at |-> None,
     jsonl_path |-> None]

\* session.rs:377-425: `session_id?`, then the Session
SessionOfSummary(summary, project_path, tmux_location, cpu_usage, file_age, pid) ==
    IF ~IsSome(summary) THEN None
    ELSE Some(RunningSession(summary.val, project_path, tmux_location, cpu_usage,
                             file_age, pid))

\* session.rs:327-375: the scan of the tail, None when the file cannot be read
SessionOfTail(lines, project_path, tmux_location, cpu_usage, file_age, pid) ==
    IF ~IsSome(lines) THEN None
    ELSE SessionOfSummary(
             TailSummary(lines.val, file_age < RECENTLY_MODIFIED_THRESHOLD_SECS),
             project_path, tmux_location, cpu_usage, file_age, pid)

\* session.rs:318-425: `jsonl_files.get(jsonl_index)?`, then the file's age
\* and its tail
SessionOfPick(pick, project_path, tmux_location, cpu_usage, pid, now) ==
    IF ~IsSome(pick) THEN None
    ELSE SessionOfTail(ReadTailRecords(pick.val, JSONL_LINES_TO_SCAN),
                       project_path, tmux_location, cpu_usage,
                       FileAge(now, pick.val.mtime.val), pid)

\* session.rs:292-425
ParseProjectSession(project_dir, project_path, tmux_location, cpu_usage, jsonl_index, pid, now) ==
    SessionOfPick(PickJsonl(project_dir, jsonl_index),
                  project_path, tmux_location, cpu_usage, pid, now)

\* a mutation of HigherPidFirst: ascending pids
LowerPidFirst(a, b) == a.pid <= b.pid

\* session.rs:125: processes.sort_by(|a, b| b.pid.cmp(&a.pid))
HigherPidFirst(a, b) == a.pid >= b.pid

\* session.rs:137-147: project_dirs, by directory name
DirNames(dirs) == {dirs[i].name : i \in 1..Len(dirs)}
DirNamed(dirs, name) == dirs[CHOOSE i \in 1..Len(dirs) : dirs[i].name = name]

\* session.rs:174-175: get_shell_pid(pid), then the pane of that shell
LocationOf(pid, shells, pane_map) ==
    IF IsSome(shells[pid]) /\ shells[pid].val \in DOMAIN pane_map
    THEN Some(pane_map[shells[pid].val])
    ELSE None

\* a mutation of NextJsonlIndex: the counter is never advanced
SameJsonlIndex(counts, dir_name) == counts

\* session.rs:171: project_process_index.insert(dir_name, jsonl_index + 1)
NextJsonlIndex(counts, dir_name) == [counts EXCEPT ![dir_name] = @ + 1]

\* session.rs:165-180: one matched process: its directory, the rank it gets,
\* the file at that rank and the Session built from it (None when there is
\* none)
PairedWith(process, dir_name, jsonl_index, pick, session) ==
    [pid |-> process.pid, dir_name |-> dir_name, jsonl_index |-> jsonl_index,
     file |-> IF IsSome(pick) THEN Some(pick.val.name) ELSE None,
     session |-> session]

Paired(process, dir_name, counts, shells, pane_map, dirs, now) ==
    PairedWith(process, dir_name, counts[dir_name],
               PickJsonl(DirNamed(dirs, dir_name), counts[dir_name]),
               ParseProjectSession(DirNamed(dirs, dir_name), process.cwd.val,
                                   LocationOf(process.pid, shells, pane_map),
                                   process.cpu_usage, counts[dir_name], process.pid, now))

\* a mutation of ResolveLoop: the counter of a directory moves on only when
\* the process got a Session
RECURSIVE ResolveLoopCountingSessions(_, _, _, _, _, _)
ResolveLoopCountingSessions(processes, counts, shells, pane_map, dirs, now) ==
    IF processes = <<>> THEN <<>>
    ELSE IF ~IsSome(Head(processes).cwd)
            \/ ConvertPathToDirName(Head(processes).cwd.val) \notin DirNames(dirs)
         THEN ResolveLoopCountingSessions(Tail(processes), counts, shells, pane_map, dirs, now)
         ELSE <<Paired(Head(processes), ConvertPathToDirName(Head(processes).cwd.val),
                       counts, shells, pane_map, dirs, now)>>
              \o ResolveLoopCountingSessions(
                    Tail(processes),
                    IF IsSome(Paired(Head(processes),
                                     ConvertPathToDirName(Head(processes).cwd.val),
                                     counts, shells, pane_map, dirs, now).session)
                    THEN NextJsonlIndex(counts, ConvertPathToDirName(Head(processes).cwd.val))
                    ELSE counts,
                    shells, pane_map, dirs, now)

\* session.rs:155-181: the loop over the sorted processes
RECURSIVE ResolveLoop(_, _, _, _, _, _)
ResolveLoop(processes, counts, shells, pane_map, dirs, now) ==
    IF processes = <<>> THEN <<>>
    ELSE IF ~IsSome(Head(processes).cwd)
            \/ ConvertPathToDirName(Head(processes).cwd.val) \notin DirNames(dirs)
         THEN ResolveLoop(Tail(processes), counts, shells, pane_map, dirs, now)
         ELSE <<Paired(Head(processes), ConvertPathToDirName(Head(processes).cwd.val),
                       counts, shells, pane_map, dirs, now)>>
              \o ResolveLoop(Tail(processes),
                             NextJsonlIndex(counts,
                                 ConvertPathToDirName(Head(processes).cwd.val)),
                             shells, pane_map, dirs, now)

\* session.rs:120-181
Resolve(processes, shells, pane_map, store, now) ==
    IF ~IsSome(store) THEN <<>>
    ELSE ResolveLoop(SortBy(processes, HigherPidFirst),
                     [d \in DirNames(store.val) |-> 0],
                     shells, pane_map, store.val, now)

\* session.rs:184-186
\* a mutation of ByTmuxTarget: the windows compared by number
ByWindowNumber(a, b) ==
    \/ ~IsSome(a.tmux_location)
    \/ IsSome(b.tmux_location)
          /\ a.tmux_location.val.window_index <= b.tmux_location.val.window_index

ByTmuxTarget(a, b) == OptStrLeq(a.tmux_target, b.tmux_target)

\* a mutation of HasSession: a session outside every pane is left out
HasPaneSession(made) == IsSome(made.session) /\ IsSome(made.session.val.tmux_location)

HasSession(r) == IsSome(r.session)

\* session.rs:178-188: the Sessions made, sorted by pane
SessionsOf(made) == SortBy([i \in 1..Len(made) |-> made[i].session.val], ByTmuxTarget)

\* session.rs:119-189
GetSessions(processes, shells, pane_map, store, now) ==
    SessionsOf(SelectSeq(Resolve(processes, shells, pane_map, store, now), HasSession))

\* session.rs:280-290
ParseIsoAge(iso, now) ==
    IF iso.rfc3339 THEN Max(now - iso.t, 0) ELSE 999999

\* session.rs:232-259
HistoricalSession(entry, now) ==
    [id |-> entry.session_id,
     project_name |-> ProjectName(entry.project_path),
     project_path |-> entry.project_path,
     status |-> Idle,
     last_message |-> entry.first_prompt,
     tmux_location |-> None,
     tmux_target |-> None,
     cpu_usage |-> 0,
     last_activity_secs |-> ParseIsoAge(entry.modified, now),
     pid |-> None,
     is_running |-> FALSE,
     first_prompt |-> entry.first_prompt,
     message_count |-> Some(entry.message_count),
     created_at |-> Some(entry.created),
     jsonl_path |-> Some(entry.full_path)]

\* a mutation of KeepsEntry: sidechain entries are not skipped
KeepsEntryAlsoSidechain(entry, running_ids) ==
    entry.session_id \notin running_ids

\* session.rs:228: the entries that are not skipped
KeepsEntry(entry, running_ids) ==
    ~(entry.is_sidechain \/ entry.session_id \in running_ids)

\* session.rs:226-260: the entries of one index, in order
RECURSIVE HistoricalOfEntries(_, _, _)
HistoricalOfEntries(entries, running_ids, now) ==
    IF entries = <<>> THEN <<>>
    ELSE (IF KeepsEntry(Head(entries), running_ids)
          THEN <<HistoricalSession(Head(entries), now)>>
          ELSE <<>>)
         \o HistoricalOfEntries(Tail(entries), running_ids, now)

\* session.rs:211-264: every directory of the store, in read_dir order
RECURSIVE CollectHistorical(_, _, _)
CollectHistorical(dirs, running_ids, now) ==
    IF dirs = <<>> THEN <<>>
    ELSE (IF Head(dirs).index.kind = "ok"
          THEN HistoricalOfEntries(Head(dirs).index.entries, running_ids, now)
          ELSE <<>>)
         \o CollectHistorical(Tail(dirs), running_ids, now)

\* session.rs:267
MostRecentFirst(a, b) == a.last_activity_secs <= b.last_activity_secs

\* a mutation of CapHistorical: the cap is applied before the sort
CapThenSort(historical) ==
    SortBy(TakeFirst(historical, HISTORY_LIMIT), MostRecentFirst)

\* session.rs:266-270
CapHistorical(historical) ==
    TakeFirst(SortBy(historical, MostRecentFirst), HISTORY_LIMIT)

\* session.rs:194-195: the ids of the running sessions
IdsOf(list) == {list[i].id : i \in 1..Len(list)}

\* session.rs:197-276: the running sessions, then the historical ones
MergeHistorical(running_sessions, store, now) ==
    IF ~IsSome(store) THEN running_sessions
    ELSE running_sessions
         \o CapHistorical(CollectHistorical(store.val, IdsOf(running_sessions), now))

\* session.rs:192-277
GetAllSessions(processes, shells, pane_map, store, now) ==
    MergeHistorical(GetSessions(processes, shells, pane_map, store, now), store, now)

----------------------------------------------------------------------------
(* The resolver's environment and its two entry points as actions.         *)

\* the number of Claude processes at most
MaxProcs == 3
\* the number of entries of the generated session indexes at most
MaxHist == 36
\* the instant of the refresh, in seconds
Now == 2000000

Pids == {100 * i : i \in 1..MaxProcs}

P_pq == <<"/", "p", "/", "q">>
P_p_q == <<"/", "p", "-", "q">>
P_r == <<"/", "r">>
D_pq == <<"-", "p", "-", "q">>
D_r == <<"-", "r">>

\* both "/p/q" and "/p-q" encode to "-p-q"
Cwds == {Some(P_pq), Some(P_p_q), Some(P_r), None}

Processes == {ClaudeProcess(pid, cwd, pid \div 100) : pid \in Pids, cwd \in Cwds}

\* the lists find_claude_processes can return: any processes, in any order,
\* no pid twice
ProcessLists ==
    {l \in SeqsUpTo(Processes, MaxProcs) :
        \A i, j \in 1..Len(l) : i # j => l[i].pid # l[j].pid}

\* get_shell_pid: the shell above each process; process 300 has none
Shells == [pid \in Pids |-> IF pid = 300 THEN None ELSE Some(pid + 1)]

\* get_pane_map: empty when tmux fails, else a pane for every shell
NoPanes == <<>>
AllPanes ==
    [sp \in {pid + 1 : pid \in Pids} |->
        TmuxLocation(<<"m">>, IF sp = 101 THEN 2 ELSE IF sp = 201 THEN 10 ELSE 1, <<"w">>)]

\* tmux.rs:21-23: what Command::output gives: no process could be started,
\* or an exit status with the lines of the standard output
SpawnError == [started |-> FALSE, success |-> FALSE, lines |-> <<>>]
ExitFailure == [started |-> TRUE, success |-> FALSE, lines |-> <<>>]
PanesListed(lines) == [started |-> TRUE, success |-> TRUE, lines |-> lines]

\* tmux.rs:29-34: a line of the output: its number of parts, parts[0] and
\* parts[2] as u32 when they parse, parts[1] and parts[3]
PaneLine(parts, pid, session, window_index, window_name) ==
    [parts |-> parts, pid |-> pid, session |-> session,
     window_index |-> window_index, window_name |-> window_name]

\* tmux.rs:30-32: the line makes an entry of the map
IsPaneEntry(line) == line.parts = 4 /\ IsSome(line.pid) /\ IsSome(line.window_index)

\* tmux.rs:28-40: the map of the lines, a later line replacing an earlier
\* one of the same pid
PaneMapOf(entries) ==
    IF entries = <<>> THEN NoPanes
    ELSE [sp \in {entries[i].pid.val : i \in 1..Len(entries)} |->
            LET last == CHOOSE i \in 1..Len(entries) :
                           /\ entries[i].pid.val = sp
                           /\ \A j \in 1..Len(entries) : entries[j].pid.val = sp => j <= i
            IN TmuxLocation(entries[last].session, entries[last].window_index.val,
                            entries[last].window_name)]

\* tmux.rs:19-47
GetPaneMap(output) ==
    IF output.started /\ output.success
    THEN PaneMapOf(SelectSeq(output.lines, IsPaneEntry))
    ELSE NoPanes

\* the output that lists the panes of AllPanes, after a line with too few
\* parts, a line whose window index is no number and a stale line of the
\* first pane
PaneLines ==
    <<PaneLine(2, Some(101), <<"x">>, None, <<>>),
      PaneLine(4, Some(901), <<"m">>, None, <<"w">>),
      PaneLine(4, Some(101), <<"x">>, Some(7), <<"w">>)>>
    \o [i \in 1..MaxProcs |->
          PaneLine(4, Some(100 * i + 1), AllPanes[100 * i + 1].session,
                   Some(AllPanes[100 * i + 1].window_index), AllPanes[100 * i + 1].window_name)]

TmuxOutputs == {SpawnError, ExitFailure, PanesListed(PaneLines)}

\* a log line carrying only a session id and a user text
LogLine(sid) == Msg(Some(sid), Some(MessageContent(Some("user"), Some(StrValue(T_ok)))))
LogFile(stem, mtime, lines) == File(FileName(FALSE, stem, "jsonl"), Some(mtime), Some(lines))

\* a log whose only sessionId is one line above the lines that are scanned
LongLog == <<LogLine("l")>> \o [i \in 1..JSONL_LINES_TO_SCAN |-> Msg(None, None)]

\* store A: "-r" with the file [user "hi", assistant tool_use] written a
\* second ago; "-p-q" with three log files, a more recent agent file and
\* the index file
IndexA ==
    Index(<<IndexEntry("b", <<D_pq, FileName(FALSE, "b", "jsonl")>>, Some(T_hi), 4,
                       Rfc3339(Now - 500), Rfc3339(Now - 1), P_pq, FALSE),
            IndexEntry("h1", <<D_pq, FileName(FALSE, "h1", "jsonl")>>, None, 2,
                       Rfc3339(Now - 400), Rfc3339(Now - 300), P_pq, TRUE),
            IndexEntry("h2", <<D_pq, FileName(FALSE, "h2", "jsonl")>>, Some(T_ok), 7,
                       Rfc3339(Now - 900), Rfc3339(Now - 800), P_pq, FALSE),
            IndexEntry("h2", <<D_pq, FileName(FALSE, "h2", "jsonl")>>, Some(T_ok), 9,
                       Rfc3339(Now - 900), NotATime, P_pq, FALSE)>>)

StoreA ==
    <<Dir(D_r, <<LogFile("g", Now - 1, <<L_user_hi, L_asst_tool>>),
                 LogFile("l", Now - 70, LongLog)>>, NoIndex),
      Dir(D_pq,
          <<LogFile("a", Now - 50, <<LogLine("a")>>),
            LogFile("b", Now - 1, <<LogLine("b"), Garbage>>),
            File(FileName(TRUE, "z", "jsonl"), Some(Now), Some(<<LogLine("z")>>)),
            LogFile("c", Now - 30, <<LogLine("c")>>),
            File(FileName(FALSE, "sessions-index", "json"), Some(Now), None)>>,
          IndexA)>>

\* store B: only "-p-q": two files of equal age holding the same session id,
\* a file dated in the future without any session id, an unreadable file and
\* a file without metadata; the index does not parse
StoreB ==
    <<Dir(D_pq,
          <<LogFile("a", Now - 20, <<LogLine("a")>>),
            LogFile("b", Now - 20, <<LogLine("a")>>),
            LogFile("c", Now + 100, <<Garbage, Msg(None, None)>>),
            File(FileName(FALSE, "d", "jsonl"), Some(Now - 40), None),
            File(FileName(FALSE, "e", "jsonl"), None, Some(<<LogLine("e")>>))>>,
          BadIndex)>>

\* the generated indexes: entry i of n under one of four patterns of
\* `modified` stamps; ids repeat, "b" and "s1" being ids of store A's log files
HistIds == <<"h1", "b", "h2", "h3", "s1", "h4", "h5">>
HistPatterns == 1..4

HistModified(i, n, pattern) ==
    CASE pattern = 1 -> Rfc3339(Now - i)
      [] pattern = 2 -> Rfc3339(Now - (n - i))
      [] pattern = 3 -> Rfc3339(Now - ((i * 7) % 5))
      [] OTHER -> CASE i % 4 = 0 -> NotATime
                    [] i % 4 = 1 -> Rfc3339(Now + 5)
                    [] i % 4 = 2 -> Rfc3339(Now - 1000000 - i)
                    [] OTHER -> Rfc3339(Now - i)

HistEntry(i, n, pattern) ==
    IndexEntry(HistIds[(i % 7) + 1],
               <<D_pq, FileName(FALSE, HistIds[(i % 7) + 1], "jsonl")>>,
               IF i % 3 = 0 THEN None ELSE Some(T_hi),
               i, Rfc3339(Now - 5000), HistModified(i, n, pattern),
               IF i % 2 = 0 THEN P_pq ELSE P_r,
               i % 6 = 0)

\* store A with generated indexes: the first third of the n entries in the
\* index of "-r", the others in the index of "-p-q"
StoreH(n, pattern) ==
    <<[StoreA[1] EXCEPT !.index = Index([i \in 1..(n \div 3) |-> HistEntry(i, n, pattern)])],
      [StoreA[2] EXCEPT !.index =
          Index([k \in 1..(n - (n \div 3)) |-> HistEntry((n \div 3) + k, n, pattern)])]>>

HistProcessLists ==
    {<<>>,
     <<ClaudeProcess(100, Some(P_pq), 1)>>,
     <<ClaudeProcess(200, Some(P_r), 2), ClaudeProcess(100, Some(P_pq), 1)>>}

\* before the first refresh
RsIdle ==
    /\ sessions = <<>>
    /\ last_call = "none"
    /\ pairing = <<>>

\* every process list over the stores A and B and the missing log_store, with and
\* without panes
RsInit ==
    /\ proc_list \in ProcessLists
    /\ shell_of = Shells
    /\ tmux_output \in {ExitFailure, PanesListed(PaneLines)}
    /\ panes = GetPaneMap(tmux_output)
    /\ log_store \in {None, Some(StoreA), Some(StoreB)}
    /\ clock = Now
    /\ RsIdle

\* the generated indexes, with no, one and two running sessions
RsInitHist ==
    /\ proc_list \in HistProcessLists
    /\ shell_of = Shells
    /\ tmux_output = PanesListed(PaneLines)
    /\ panes = GetPaneMap(tmux_output)
    /\ log_store \in {Some(StoreH(n, pattern)) : n \in 0..MaxHist, pattern \in HistPatterns}
    /\ clock = Now
    /\ RsIdle

RsOff ==
    /\ proc_list = <<>> /\ shell_of = Shells
    /\ tmux_output = SpawnError /\ panes = GetPaneMap(tmux_output)
    /\ log_store = None /\ clock = Now
    /\ RsIdle

\* session::get_sessions()
CallGetSessions ==
    /\ sessions' = GetSessions(proc_list, shell_of, panes, log_store, clock)
    /\ pairing' = Resolve(proc_list, shell_of, panes, log_store, clock)
    /\ last_call' = "get_sessions"
    /\ UNCHANGED <<proc_list, shell_of, panes, tmux_output, log_store, clock>>
    /\ UNCHANGED not_rs

\* session::get_all_sessions()
CallGetAllSessions ==
    /\ sessions' = GetAllSessions(proc_list, shell_of, panes, log_store, clock)
    /\ pairing' = Resolve(proc_list, shell_of, panes, log_store, clock)
    /\ last_call' = "get_all_sessions"
    /\ UNCHANGED <<proc_list, shell_of, panes, tmux_output, log_store, clock>>
    /\ UNCHANGED not_rs

----------------------------------------------------------------------------
(* The log view's file access (log_view.rs) and the App (main.rs): its      *)
(* handlers as actions over the resolver's environment, which the handlers  *)
(* and the sessions' processes change.                                      *)

MAX_MESSAGES == 50
MAX_LINES_TO_SCAN == 500

\* Iterator::max_by_key on the modification time: the last of the maxima
LastNewest(files) ==
    files[CHOOSE i \in 1..Len(files) :
             \A j \in 1..Len(files) :
                /\ j < i => files[j].mtime.val <= files[i].mtime.val
                /\ j > i => files[j].mtime.val < files[i].mtime.val]

\* log_view.rs:58-73 on the files that pass the two filters
NewestOf(files) == IF files = <<>> THEN None ELSE Some(LastNewest(files))

\* log_view.rs:58-73: find_most_recent_jsonl, None when the directory cannot
\* be read
FindMostRecentJsonl(store, dir_name) ==
    IF ~IsSome(store) \/ dir_name \notin DirNames(store.val) THEN None
    ELSE NewestOf(SelectSeq(DirNamed(store.val, dir_name).files, IsJsonlFile))

MtimeOf(pick) == IF IsSome(pick) THEN pick.val.mtime ELSE None

\* log_view.rs:25-31
GetLogMtime(project_dir, store) ==
    MtimeOf(FindMostRecentJsonl(store, LogViewConvertPathToDirName(project_dir)))

\* log_view.rs:126-144: the texts of the "text" items, joined by newlines
RECURSIVE JoinTexts(_, _)
JoinTexts(items, joined) ==
    IF items = <<>> THEN joined
    ELSE IF Head(items).type = Some("text") /\ IsSome(Head(items).text)
         THEN JoinTexts(Tail(items),
                        IF IsSome(joined)
                        THEN Some(joined.val \o <<LF>> \o Head(items).text.val)
                        ELSE Head(items).text)
         ELSE JoinTexts(Tail(items), joined)

\* log_view.rs:124-149: extract_text_content
ExtractTextContent(content) ==
    CASE content.kind = "str" -> Some(content.s)
      [] content.kind = "arr" -> JoinTexts(content.items, None)
      [] OTHER -> None

\* log_view.rs:102-122: extract_message returns Some
HasLogMessage(line) ==
    /\ line.ok /\ IsSome(line.message)
    /\ line.message.val.role \in {Some("user"), Some("assistant")}
    /\ IsSome(line.message.val.content)
    /\ IsSome(ExtractTextContent(line.message.val.content.val))
    /\ Trim(ExtractTextContent(line.message.val.content.val).val) # <<>>

LogMessage(line) ==
    [role |-> line.message.val.role.val,
     content |-> ExtractTextContent(line.message.val.content.val).val]

LogMessagesOf(kept) == [i \in 1..Len(kept) |-> LogMessage(kept[i])]

\* log_view.rs:75-100: parse_jsonl_messages on the lines of the file
ParseJsonlMessages(lines) ==
    LastN(LogMessagesOf(SelectSeq(LastN(lines, MAX_LINES_TO_SCAN), HasLogMessage)),
          MAX_MESSAGES)

MessagesOfPick(pick) ==
    IF ~IsSome(pick) \/ ~IsSome(pick.val.content) THEN <<>>
    ELSE ParseJsonlMessages(pick.val.content.val)

\* log_view.rs:34-56
ParseLogMessages(project_dir, store) ==
    MessagesOfPick(FindMostRecentJsonl(store, LogViewConvertPathToDirName(project_dir)))

Running == "Running"
All == "All"

\* main.rs:25-30
Toggle(view_mode) == IF view_mode = Running THEN All ELSE Running

\* what a handler did besides changing the App: the pid it signalled, the
\* path it removed, the calls of refresh_sessions, find_claude_processes,
\* get_pane_map and parse_log_messages it made
Effect(killed, removed, heavy, fetches, parsed) ==
    [killed |-> killed, removed |-> removed, heavy |-> heavy,
     proc_fetches |-> fetches.procs, pane_fetches |-> fetches.panes, parsed |-> parsed]

NoFetches == [procs |-> 0, panes |-> 0]

\* a mutation of GetShellPidFetches: get_shell_pid refreshes the process
\* table for itself
GetShellPidRefreshes(pid) == 1

\* process.rs:103-125: get_shell_pid reads the snapshot that
\* find_claude_processes left and fetches nothing
GetShellPidFetches(pid) == 0

\* session.rs:155-181: the process fetches of the loop, one get_shell_pid
\* call for each process that reaches session.rs:174
RECURSIVE LoopFetches(_)
LoopFetches(made) ==
    IF made = <<>> THEN 0
    ELSE GetShellPidFetches(Head(made).pid) + LoopFetches(Tail(made))

\* session.rs:119-189: find_claude_processes and get_pane_map once each
\* before the loop, and the loop
GetSessionsFetches(made) == [procs |-> 1 + LoopFetches(made), panes |-> 1]

\* session.rs:192-277: get_all_sessions calls get_sessions once and fetches
\* nothing itself
GetAllSessionsFetches(made) == GetSessionsFetches(made)

\* main.rs:62-65
RefreshFetches(view_mode, made) ==
    IF view_mode = Running THEN GetSessionsFetches(made) ELSE GetAllSessionsFetches(made)

\* main.rs:79: self.sessions.get(self.selected)
HasSelected(list, selected) == selected < Len(list)

\* main.rs:78-95: refresh_log_if_changed calls parse_log_messages
ParsesLog(check_mtime, list, selected, store) ==
    /\ HasSelected(list, selected)
    /\ ~(check_mtime
           /\ GetLogMtime(list[selected + 1].project_path, store) = ap_last_log_mtime)

\* main.rs:78-95: refresh_log_if_changed
RefreshLogIfChanged(check_mtime, list, selected, store) ==
    /\ ap_last_log_mtime' =
          IF HasSelected(list, selected)
          THEN GetLogMtime(list[selected + 1].project_path, store)
          ELSE None
    /\ ap_log_messages' =
          IF ~HasSelected(list, selected) THEN <<>>
          ELSE IF ParsesLog(check_mtime, list, selected, store)
               THEN ParseLogMessages(list[selected + 1].project_path, store)
               ELSE ap_log_messages

\* a mutation of ClampSelected: the selection is left where it was
ClampSelectedKept(selected, len) == selected

\* main.rs:66-69: the selection once the list has len sessions
ClampSelected(selected, len) ==
    IF selected >= len /\ len # 0 THEN len - 1 ELSE selected

\* main.rs:61-72: refresh_sessions in the view mode given, on the processes
\* and the store as they are when it runs
RefreshSessions(view_mode, processes, store) ==
    /\ sessions' = IF view_mode = Running
                   THEN GetSessions(processes, shell_of, panes, store, clock)
                   ELSE GetAllSessions(processes, shell_of, panes, store, clock)
    /\ pairing' = Resolve(processes, shell_of, panes, store, clock)
    /\ last_call' = IF view_mode = Running THEN "get_sessions" ELSE "get_all_sessions"
    /\ ap_selected' = ClampSelected(ap_selected, Len(sessions'))
    /\ RefreshLogIfChanged(FALSE, sessions', ap_selected', store)

\* the store of the App's runs: "-p-q" with the logs of two running sessions
\* and of an ended one, and an index naming the ended one and a session
\* whose log is gone
L_asst_hi ==
    Msg(Some("b"), Some(MessageContent(Some("assistant"),
                                       Some(ArrValue(<<Item(Some("text"), Some(T_hi))>>)))))
IndexP ==
    Index(<<IndexEntry("h", <<D_pq, FileName(FALSE, "h", "jsonl")>>, Some(T_hi), 3,
                       Rfc3339(Now - 900), Rfc3339(Now - 800), P_pq, FALSE),
            IndexEntry("k", <<D_pq, FileName(FALSE, "k", "jsonl")>>, None, 1,
                       Rfc3339(Now - 950), Rfc3339(Now - 900), P_pq, FALSE),
            IndexEntry("b", <<D_pq, FileName(FALSE, "b", "jsonl")>>, Some(T_ok), 2,
                       Rfc3339(Now - 100), Rfc3339(Now - 1), P_pq, FALSE)>>)
StoreP ==
    <<Dir(D_pq,
          <<LogFile("a", Now - 50, <<LogLine("a")>>),
            LogFile("b", Now - 1, <<LogLine("b"), L_asst_hi>>),
            LogFile("h", Now - 800, <<LogLine("h")>>)>>,
          IndexP)>>

\* the processes at the start of the App's runs
ProcsP == <<ClaudeProcess(200, Some(P_pq), 2), ClaudeProcess(100, Some(P_pq), 1)>>

\* kill(pid, SIGTERM): the process list once the process is gone
WithoutPid(processes, pid) == SelectSeq(processes, LAMBDA q : q.pid # pid)

\* std::fs::remove_file(path): the store once the file is gone
WithoutFile(store, path) ==
    [d \in 1..Len(store) |->
        IF store[d].name = path[1]
        THEN [store[d] EXCEPT !.files = SelectSeq(@, LAMBDA f : f.name # path[2])]
        ELSE store[d]]

\* a write to the log file named stem, now
Touched(store, stem) ==
    [d \in 1..Len(store) |->
        [store[d] EXCEPT !.files =
            [i \in 1..Len(@) |->
                IF @[i].name.stem = stem THEN [@[i] EXCEPT !.mtime = Some(clock)] ELSE @[i]]]]

ApWorldUnchanged == UNCHANGED <<proc_list, shell_of, panes, tmux_output, log_store, clock>>
ApListUnchanged == UNCHANGED <<sessions, last_call, pairing>>
ApLogUnchanged == UNCHANGED <<ap_log_messages, ap_last_log_mtime>>

\* main.rs:50-59: App::new(), beside the processes and the store
ApInit ==
    /\ proc_list = ProcsP /\ shell_of = Shells
    /\ tmux_output = PanesListed(PaneLines) /\ panes = GetPaneMap(tmux_output)
    /\ log_store = Some(StoreP) /\ clock = Now
    /\ RsIdle
    /\ ap_selected = 0 /\ ap_log_messages = <<>> /\ ap_last_log_mtime = None
    /\ ap_view_mode = Running /\ ap_should_quit = FALSE
    /\ ap_op = "new"
    /\ ap_effect = Effect(None, None, 0, NoFetches, FALSE)

ApOff ==
    /\ ap_selected = 0 /\ ap_log_messages = <<>> /\ ap_last_log_mtime = None
    /\ ap_view_mode = Running /\ ap_should_quit = FALSE
    /\ ap_op = "new"
    /\ ap_effect = Effect(None, None, 0, NoFetches, FALSE)

\* the main loop is past its first refresh and has not left
ApLooping == ap_op # "new" /\ ~ap_should_quit

\* main.rs:176, 200, 224-227: the first refresh, the key R, the heavy tick
HeavyPass ==
    /\ ~ap_should_quit
    /\ RefreshSessions(ap_view_mode, proc_list, log_store)
    /\ ap_op' = "refresh_sessions"
    /\ ap_effect' = Effect(None, None, 1, RefreshFetches(ap_view_mode, pairing'), HasSelected(sessions', ap_selected'))
    /\ UNCHANGED <<ap_view_mode, ap_should_quit>>
    /\ ApWorldUnchanged
    /\ UNCHANGED not_ap

\* main.rs:229-233: the light tick
LightPass ==
    /\ ApLooping
    /\ RefreshLogIfChanged(TRUE, sessions, ap_selected, log_store)
    /\ ap_op' = "refresh_log_if_changed"
    /\ ap_effect' = Effect(None, None, 0, NoFetches,
                           ParsesLog(TRUE, sessions, ap_selected, log_store))
    /\ UNCHANGED <<ap_selected, ap_view_mode, ap_should_quit>>
    /\ ApListUnchanged /\ ApWorldUnchanged
    /\ UNCHANGED not_ap

\* a selection handler that moves the selection to `selected`, or does nothing
SelectStep(op, moves, selected) ==
    /\ ApLooping
    /\ IF moves
       THEN /\ ap_selected' = selected
            /\ RefreshLogIfChanged(FALSE, sessions, selected, log_store)
            /\ ap_effect' = Effect(None, None, 0, NoFetches, TRUE)
       ELSE /\ UNCHANGED ap_selected
            /\ ApLogUnchanged
            /\ ap_effect' = Effect(None, None, 0, NoFetches, FALSE)
    /\ ap_op' = op
    /\ UNCHANGED <<ap_view_mode, ap_should_quit>>
    /\ ApListUnchanged /\ ApWorldUnchanged
    /\ UNCHANGED not_ap

\* main.rs:97-102: keys j, Down
SelectNext ==
    SelectStep("select_next", sessions # <<>>,
               IF sessions # <<>> THEN (ap_selected + 1) % Len(sessions) ELSE 0)

\* main.rs:104-109: keys k, Up
SelectPrev ==
    SelectStep("select_prev", sessions # <<>>,
               IF ap_selected >= 1 THEN ap_selected - 1 ELSE Len(sessions) - 1)

\* main.rs:210-216: keys 1 to 9
SelectDigit ==
    \E idx \in 0..8 : SelectStep("select_digit", idx < Len(sessions), idx)

\* a handler that did nothing
ApNothing(op) ==
    /\ ap_op' = op
    /\ ap_effect' = Effect(None, None, 0, NoFetches, FALSE)
    /\ UNCHANGED <<ap_selected, ap_view_mode, ap_should_quit>>
    /\ ApLogUnchanged /\ ApListUnchanged /\ ApWorldUnchanged
    /\ UNCHANGED not_ap

\* a mutation of SignalledPid: the pid of the first session of the list
SignalledPidOfFirst(list, selected) == list[1].pid

\* main.rs:129-131: the pid handed to libc::kill, None for no call
SignalledPid(list, selected) == list[selected + 1].pid

\* main.rs:128-135: key x; the signalled process is gone by the refresh, or
\* not yet, or the signal failed
KillSelected ==
    /\ ApLooping
    /\ IF HasSelected(sessions, ap_selected) /\ IsSome(sessions[ap_selected + 1].pid)
       THEN /\ proc_list' \in {proc_list,
                                WithoutPid(proc_list, SignalledPid(sessions, ap_selected).val)}
            /\ RefreshSessions(ap_view_mode, proc_list', log_store)
            /\ ap_op' = "kill_selected"
            /\ ap_effect' = Effect(SignalledPid(sessions, ap_selected), None, 1,
                                   RefreshFetches(ap_view_mode, pairing'),
                                   HasSelected(sessions', ap_selected'))
            /\ UNCHANGED <<ap_view_mode, ap_should_quit>>
            /\ UNCHANGED <<shell_of, panes, tmux_output, log_store, clock>>
            /\ UNCHANGED not_ap
       ELSE ApNothing("kill_selected")

\* main.rs:143-155: key D; remove_file succeeds or fails
DeleteSelected ==
    /\ ApLooping
    /\ IF /\ HasSelected(sessions, ap_selected)
          /\ ~sessions[ap_selected + 1].is_running
          /\ IsSome(sessions[ap_selected + 1].jsonl_path)
       THEN /\ log_store' \in {log_store,
                                Some(WithoutFile(log_store.val,
                                                 sessions[ap_selected + 1].jsonl_path.val))}
            /\ RefreshSessions(ap_view_mode, proc_list, log_store')
            /\ ap_op' = "delete_selected"
            /\ ap_effect' = Effect(None, sessions[ap_selected + 1].jsonl_path, 1,
                                   RefreshFetches(ap_view_mode, pairing'),
                                   HasSelected(sessions', ap_selected'))
            /\ UNCHANGED <<ap_view_mode, ap_should_quit>>
            /\ UNCHANGED <<proc_list, shell_of, panes, tmux_output, clock>>
            /\ UNCHANGED not_ap
       ELSE ApNothing("delete_selected")

\* main.rs:137-140: key Tab
ToggleViewMode ==
    /\ ApLooping
    /\ ap_view_mode' = Toggle(ap_view_mode)
    /\ RefreshSessions(ap_view_mode', proc_list, log_store)
    /\ ap_op' = "toggle_view_mode"
    /\ ap_effect' = Effect(None, None, 1, RefreshFetches(ap_view_mode', pairing'),
                           HasSelected(sessions', ap_selected'))
    /\ UNCHANGED ap_should_quit
    /\ ApWorldUnchanged
    /\ UNCHANGED not_ap

\* main.rs:192, 195-205: keys q and Esc, and Enter and r with a session
\* selected
Quit ==
    /\ ApLooping
    /\ ap_should_quit' = TRUE
    /\ ap_op' = "quit"
    /\ ap_effect' = Effect(None, None, 0, NoFetches, FALSE)
    /\ UNCHANGED <<ap_selected, ap_view_mode>>
    /\ ApLogUnchanged /\ ApListUnchanged /\ ApWorldUnchanged
    /\ UNCHANGED not_ap

\* a session's process writes to its log a or b
EnvWrite ==
    /\ ApLooping
    /\ \E stem \in {"a", "b"} :
          /\ \E i \in 1..Len(log_store.val[1].files) :
                /\ log_store.val[1].files[i].name.stem = stem
                /\ log_store.val[1].files[i].mtime # Some(clock)
          /\ log_store' = Some(Touched(log_store.val, stem))
    /\ ap_op' = "env"
    /\ ap_effect' = Effect(None, None, 0, NoFetches, FALSE)
    /\ UNCHANGED <<ap_selected, ap_view_mode, ap_should_quit>>
    /\ ApLogUnchanged /\ ApListUnchanged
    /\ UNCHANGED <<proc_list, shell_of, panes, tmux_output, clock>>
    /\ UNCHANGED not_ap

----------------------------------------------------------------------------
(* The process source (process.rs): find_claude_processes over a snapshot   *)
(* of the process table.                                                    *)

S_claude == <<"c", "l", "a", "u", "d", "e">>
S_Claude == <<"C", "l", "a", "u", "d", "e">>
S_bin_claude == <<"/", "b", "/">> \o S_claude
S_claudex == S_claude \o <<"x">>
S_node == <<"n", "o", "d", "e">>
S_zsh == <<"z", "s", "h">>
S_watch == S_claude \o <<"-", "w", "a", "t", "c", "h">>
S_acp == S_claude \o <<"-", "c", "o", "d", "e", "-", "a", "c", "p">>

\* str::to_lowercase on the characters used
LowerChar(c) == IF c = "C" THEN "c" ELSE c
ToLowercase(text) == [i \in 1..Len(text) |-> LowerChar(text[i])]

\* str::ends_with
EndsWith(text, pat) ==
    Len(text) >= Len(pat) /\ SubSeq(text, Len(text) - Len(pat) + 1, Len(text)) = pat

\* process.rs:66-69: the arguments joined by single spaces
RECURSIVE JoinArgs(_)
JoinArgs(cmd) ==
    IF cmd = <<>> THEN <<>>
    ELSE IF Len(cmd) = 1 THEN cmd[1]
    ELSE cmd[1] \o <<" ">> \o JoinArgs(Tail(cmd))

\* a process of the snapshot: sysinfo::Process name(), cmd(), parent()
Proc(name, cmd, parent) == [name |-> name, cmd |-> cmd, parent |-> parent]

\* process.rs:86-99: is_claude_process
IsClaudeProcess(proc) ==
    /\ ~Contains(proc.name, S_watch)
    /\ proc.cmd # <<>>
    /\ \/ ToLowercase(proc.cmd[1]) = S_claude
       \/ EndsWith(ToLowercase(proc.cmd[1]), <<"/">> \o S_claude)

\* process.rs:47-52: first pass
ClaudePids(table) == {pid \in DOMAIN table : IsClaudeProcess(table[pid])}

\* a mutation of KeepsProcess: the wrapper is looked for in the parent's
\* name
KeepsProcessByParentName(table, claude_pids, proc) ==
    \/ ~IsSome(proc.parent)
    \/ /\ proc.parent.val \notin claude_pids
       /\ \/ proc.parent.val \notin DOMAIN table
          \/ ~Contains(table[proc.parent.val].name, S_acp)

\* process.rs:57-77: the second filter of the second pass
KeepsProcess(table, claude_pids, proc) ==
    \/ ~IsSome(proc.parent)
    \/ /\ proc.parent.val \notin claude_pids
       /\ \/ proc.parent.val \notin DOMAIN table
          \/ ~Contains(JoinArgs(table[proc.parent.val].cmd), S_acp)

\* process.rs:54-56, 78-83: the pids the second pass keeps
ReturnedPids(table) ==
    {pid \in DOMAIN table :
        IsClaudeProcess(table[pid]) /\ KeepsProcess(table, ClaudePids(table), table[pid])}

\* process.rs:54-83: the results find_claude_processes can give, in any
\* order of the iteration over the HashMap
FindClaudeProcesses(table) ==
    {l \in [1..Cardinality(ReturnedPids(table)) -> {ClaudeProcess(pid, Some(P_pq), 0) : pid \in ReturnedPids(table)}] :
        \A i, j \in DOMAIN l : i # j => l[i] # l[j]}

\* the kinds of process of the snapshots: claude by name, by path and in
\* capitals, the wrapper, a shell, the monitor, a monitor started under the
\* name claude, and a process whose command line cannot be read
ProcKinds ==
    {<<S_claude, <<S_claude>>>>,
     <<S_node, <<S_bin_claude, <<"-", "c">>>>>>,
     <<S_Claude, <<S_Claude>>>>,
     <<S_claudex, <<S_claudex>>>>,
     <<S_node, <<S_node, <<"/", "z", "/">> \o S_acp>>>>,
     <<S_zsh, <<S_zsh>>>>,
     <<S_watch, <<S_bin_claude>>>>,
     <<S_watch \o <<"-", "t", "u">>, <<S_claude>>>>,
     <<S_node, <<>>>>}

TablePids == {1, 2, 3}

\* a pid that no process of the snapshot has: a parent that has exited
GonePid == 9

\* the parents a process of the snapshot can have: none, an older process
\* of the snapshot, a process that is gone
ParentsOf(pid) == {None, Some(GonePid)} \cup {Some(q) : q \in {q \in TablePids : q < pid}}

Tables ==
    {t \in [TablePids -> {Proc(k[1], k[2], parent) :
                             k \in ProcKinds, parent \in {None, Some(GonePid), Some(1), Some(2)}}] :
        \A pid \in TablePids : t[pid].parent \in ParentsOf(pid)}

PfInit ==
    /\ pf_table \in Tables
    /\ pf_result = None

PfOff ==
    /\ pf_table = <<>>
    /\ pf_result = None

\* process.rs:23-84
PfCall ==
    /\ pf_result = None
    /\ pf_result' \in {Some(l) : l \in FindClaudeProcesses(pf_table)}
    /\ UNCHANGED pf_table
    /\ UNCHANGED not_pf

----------------------------------------------------------------------------
(* Specifications: one per component, each running its component from the  *)
(* inputs its Init draws while the other components stay at rest.          *)

\* the tail reader alone, on every file and every n within the bounds
InitTail == RlInit /\ DsOff /\ ScOff /\ RsOff /\ CpOff /\ ApOff /\ PfOff
NextTail == RlOpen \/ RlChunk \/ RlFinish
SpecTail == InitTail /\ [][NextTail]_vars

\* the tail reader run to completion: read_last_lines is sequential code
\* that nothing suspends, so a step that can be taken is taken
SpecTailFair == SpecTail /\ WF_vars(NextTail)

\* the status classifier alone, on every input
InitStatus == DsInit /\ RlOff /\ ScOff /\ RsOff /\ CpOff /\ ApOff /\ PfOff
NextStatus == DsCall \/ DsNextInput
SpecStatus == InitStatus /\ [][NextStatus]_vars

\* the scan of a tail alone, on every tail of at most MaxTail lines of ScanLines
InitScan == ScInit /\ RlOff /\ DsOff /\ RsOff /\ CpOff /\ ApOff /\ PfOff
NextScan == ScCall \/ ScAppend
SpecScan == InitScan /\ [][NextScan]_vars

\* the resolver on every process list, over the stores A and B
Init == RsInit /\ RlOff /\ DsOff /\ ScOff /\ CpOff /\ ApOff /\ PfOff
Next == CallGetSessions \/ CallGetAllSessions
Spec == Init /\ [][Next]_vars

\* the resolver on the generated session indexes
InitHist == RsInitHist /\ RlOff /\ DsOff /\ ScOff /\ CpOff /\ ApOff /\ PfOff
SpecHist == InitHist /\ [][Next]_vars

\* the path codec alone, on every path of at most MaxPath characters
InitCodec == CpInit /\ RlOff /\ DsOff /\ ScOff /\ RsOff /\ ApOff /\ PfOff
NextCodec == CpCall \/ CpExtend
SpecCodec == InitCodec /\ [][NextCodec]_vars

\* find_claude_processes on every snapshot of three processes
InitFind == PfInit /\ RlOff /\ DsOff /\ ScOff /\ RsOff /\ CpOff /\ ApOff
NextFind == PfCall
SpecFind == InitFind /\ [][NextFind]_vars

\* tmux starts or stops answering: what get_pane_map returns from now on
EnvTmux ==
    /\ ApLooping
    /\ tmux_output' \in TmuxOutputs \ {tmux_output}
    /\ panes' = GetPaneMap(tmux_output')
    /\ ap_op' = "env"
    /\ ap_effect' = Effect(None, None, 0, NoFetches, FALSE)
    /\ UNCHANGED <<ap_selected, ap_view_mode, ap_should_quit>>
    /\ ApLogUnchanged /\ ApListUnchanged
    /\ UNCHANGED <<proc_list, shell_of, log_store, clock>>
    /\ UNCHANGED not_ap

\* the App over the store P, from App::new() on
InitApp == ApInit /\ RlOff /\ DsOff /\ ScOff /\ CpOff /\ PfOff
NextApp ==
    \/ HeavyPass \/ LightPass
    \/ SelectNext \/ SelectPrev \/ SelectDigit
    \/ KillSelected \/ DeleteSelected \/ ToggleViewMode \/ Quit
    \/ EnvWrite \/ EnvTmux
SpecApp == InitApp /\ [][NextApp]_vars

----------------------------------------------------------------------------
(* Properties of the tail reader (SpecTail).                               *)

\* the reverse-chunked path was taken
RlChunked == IsSome(rl_file) /\ Len(rl_file.val) >= SmallFileLimit
RlReturned == rl_pc = "done" /\ IsSome(rl_result)

\* C1: read_last_lines(file, k) returns exactly the last min(k, number of
\* lines) lines of the file, in their original order.
C1_TailIsLastLines ==
    RlReturned => rl_result.val = LastN(BufReadLines(rl_file.val), rl_n)

\* a is a subsequence of b: the elements of a occur in b, in the same order
RECURSIVE IsSubseq(_, _)
IsSubseq(a, b) ==
    IF a = <<>> THEN TRUE
    ELSE IF b = <<>> THEN FALSE
    ELSE IF Head(a) = Head(b) THEN IsSubseq(Tail(a), Tail(b))
    ELSE IsSubseq(a, Tail(b))

\* C2: in the reverse-chunked path every returned string is exactly one
\* complete line of the file (never a fragment cut at a chunk boundary, never
\* two lines joined), and the returned lines keep the file's order.
C2_ChunkedLinesAreWhole ==
    (RlReturned /\ RlChunked) =>
        IsSubseq(rl_result.val, BufReadLines(rl_file.val))

\* the chunks read so far lie one below the other, the first ending at the
\* end of the file and the last starting at the read position, none empty
ReadsDescend ==
    \A i \in 1..Len(rl_reads) :
        /\ rl_reads[i][2] >= 1
        /\ rl_reads[i][1] + rl_reads[i][2] =
              (IF i = 1 THEN Len(rl_file.val) ELSE rl_reads[i - 1][1])
        /\ i = Len(rl_reads) => rl_reads[i][1] = rl_pos

\* ceil(file_size / chunk_size)
MaxChunks == (Len(rl_file.val) + ChunkSize - 1) \div ChunkSize

C27_LeftEarly ==
    /\ RlReturned /\ RlChunked
    /\ rl_pos > 0 /\ rl_reads # <<>> /\ Len(rl_lines) >= rl_n

----------------------------------------------------------------------------
(* Properties of the status classifier (SpecStatus).                       *)

\* C3: determine_status is total and agrees with the decision table on every
\* input: assistant gives Processing when recently modified and Waiting
\* otherwise; user with a local command or an interrupt gives Waiting; any
\* other user input gives Thinking when recently modified and Waiting
\* otherwise; a missing or other role gives Thinking when recently modified
\* and Idle otherwise.
C3_StatusTable ==
    IsSome(ds_out) =>
        /\ ds_out.val \in SessionStatus
        /\ (ds_in.role = Some("assistant") /\ ds_in.recently_modified)
              => ds_out.val = Processing
        /\ (ds_in.role = Some("assistant") /\ ~ds_in.recently_modified)
              => ds_out.val = Waiting
        /\ (ds_in.role = Some("user")
              /\ (ds_in.is_local_command \/ ds_in.is_interrupted))
              => ds_out.val = Waiting
        /\ (ds_in.role = Some("user") /\ ~ds_in.is_local_command
              /\ ~ds_in.is_interrupted /\ ds_in.recently_modified)
              => ds_out.val = Thinking
        /\ (ds_in.role = Some("user") /\ ~ds_in.is_local_command
              /\ ~ds_in.is_interrupted /\ ~ds_in.recently_modified)
              => ds_out.val = Waiting
        /\ (ds_in.role \notin {Some("assistant"), Some("user")}
              /\ ds_in.recently_modified)
              => ds_out.val = Thinking
        /\ (ds_in.role \notin {Some("assistant"), Some("user")}
              /\ ~ds_in.recently_modified)
              => ds_out.val = Idle

\* witness of C3: an interrupted user request in a recently modified file was
\* classified
C3_Witness ==
    /\ IsSome(ds_out)
    /\ ds_in.role = Some("user") /\ ds_in.is_interrupted
    /\ ~ds_in.is_local_command /\ ds_in.recently_modified
    /\ ds_out.val = Waiting

----------------------------------------------------------------------------
(* Properties of the scan of the tail (SpecScan).                          *)

\* the parsed records of the tail, most recent first
RECURSIVE Parsed(_)
Parsed(lines) ==
    IF lines = <<>> THEN <<>>
    ELSE IF lines[Len(lines)].ok
         THEN <<lines[Len(lines)]>> \o Parsed(SubSeq(lines, 1, Len(lines) - 1))
         ELSE Parsed(SubSeq(lines, 1, Len(lines) - 1))

RecHasContent(r) ==
    IsSome(r.message) /\ IsSome(r.message.val.content)
        /\ HasContent(r.message.val.content.val)
RecContent(r) == r.message.val.content.val
RecText(r) == IF RecHasContent(r) THEN ExtractText(RecContent(r)) ELSE None

\* the position of the first record of recs satisfying P, 0 when there is none
FirstWhere(recs, P(_)) ==
    IF \E i \in 1..Len(recs) : P(recs[i])
    THEN CHOOSE i \in 1..Len(recs) : P(recs[i]) /\ \A j \in 1..(i - 1) : ~P(recs[j])
    ELSE 0

HasNonEmptyId(r) == IsSome(r.session_id) /\ r.session_id.val # ""
HasId(r) == IsSome(r.session_id)
HasText(r) == IsSome(RecText(r))

\* C10 (session id): the session id is the first non-empty sessionId seen
C10_IdIsFirstNonEmpty ==
    IsSome(sc_out) =>
        LET recs == Parsed(sc_lines)
            k == FirstWhere(recs, HasNonEmptyId)
        IN IF k = 0 THEN ~IsSome(sc_out.val.summary)
           ELSE /\ IsSome(sc_out.val.summary)
                /\ sc_out.val.summary.val.id = recs[k].session_id.val

\* C10 (signals): role, tool markers, interrupt and local-command markers are
\* those of the first record with non-empty content
C10_SignalsOfFirstContent ==
    IsSome(sc_out) =>
        LET recs == Parsed(sc_lines)
            k == FirstWhere(recs, RecHasContent)
            acc == sc_out.val.acc
        IN IF k = 0
           THEN /\ acc.last_role = None
                /\ ~acc.has_tool_use /\ ~acc.has_tool_result
                /\ ~acc.is_local_command /\ ~acc.is_interrupted
           ELSE /\ acc.last_role = recs[k].message.val.role
                /\ acc.has_tool_use = CheckContentType(RecContent(recs[k]), "tool_use")
                /\ acc.has_tool_result = CheckContentType(RecContent(recs[k]), "tool_result")
                /\ acc.is_local_command = CheckLocalCommand(RecContent(recs[k]))
                /\ acc.is_interrupted = CheckInterrupted(RecContent(recs[k]))

\* C10 (text): lastMessage is the first extractable non-empty text
C10_TextIsFirstExtractable ==
    IsSome(sc_out) =>
        LET recs == Parsed(sc_lines)
            k == FirstWhere(recs, HasText)
        IN sc_out.val.acc.last_message = (IF k = 0 THEN None ELSE RecText(recs[k]))

\* C10 (example): [user "hi", assistant with only a tool_use item], modified
\* less than 3 seconds ago, gives status Processing and lastMessage "hi"
C10_Example ==
    (IsSome(sc_out) /\ sc_lines = <<L_user_hi, L_asst_tool>> /\ sc_recent) =>
        /\ IsSome(sc_out.val.summary)
        /\ sc_out.val.summary.val.status = Processing
        /\ sc_out.val.summary.val.last_message = Some(T_hi)

\* C10: scanning from the most recent line to the oldest, the session id is
\* the first non-empty sessionId seen, the status signals are those of the
\* first record with non-empty content, and lastMessage is the first
\* extractable non-empty text, which may come from an older record than the
\* one supplying the role (the example above).
C10_ScanPicks ==
    /\ C10_IdIsFirstNonEmpty
    /\ C10_SignalsOfFirstContent
    /\ C10_TextIsFirstExtractable
    /\ C10_Example

----------------------------------------------------------------------------
(* Properties of the resolver (Spec, SpecHist).                            *)

Refreshed == last_call # "none"

ProcSet == {proc_list[i] : i \in 1..Len(proc_list)}
DirOf(p) == ConvertPathToDirName(p.cwd.val)

\* the process has a working directory that encodes to a directory of the store
Matched(p) ==
    /\ IsSome(p.cwd) /\ IsSome(log_store)
    /\ DirOf(p) \in DirNames(log_store.val)

\* the number of processes of the same log directory with a larger pid
RankOf(p) ==
    Cardinality({q \in ProcSet : IsSome(q.cwd) /\ DirOf(q) = DirOf(p) /\ q.pid > p.pid})

\* the positions of the eligible files of a directory
Eligible(dir) == {i \in 1..Len(dir.files) : IsJsonlFile(dir.files[i])}

\* the file named name is a k-th most recently modified eligible file of dir
\* (k from 0; files of equal modification time share their ranks)
IsKthNewest(dir, name, k) ==
    \E i \in Eligible(dir) :
        /\ dir.files[i].name = name
        /\ Cardinality({j \in Eligible(dir) :
                           dir.files[j].mtime.val > dir.files[i].mtime.val}) <= k
        /\ k < Cardinality({j \in Eligible(dir) :
                               dir.files[j].mtime.val >= dir.files[i].mtime.val})

\* C4: whatever the order of the process list, among the processes whose
\* working directory encodes to the same existing log directory the process
\* with the k-th largest pid is paired with the k-th most recently modified
\* eligible file of that directory (with no file when there are not that
\* many); pids 300, 100, 200 sharing a directory get ranks 0, 2, 1.
C4_RankByPid ==
    Refreshed =>
        /\ \A p \in ProcSet :
              Matched(p) =>
                 \E i \in 1..Len(pairing) :
                    /\ pairing[i].pid = p.pid
                    /\ pairing[i].dir_name = DirOf(p)
                    /\ pairing[i].jsonl_index = RankOf(p)
                    /\ LET dir == DirNamed(log_store.val, DirOf(p))
                       IN IF RankOf(p) < Cardinality(Eligible(dir))
                          THEN /\ IsSome(pairing[i].file)
                               /\ IsKthNewest(dir, pairing[i].file.val, RankOf(p))
                          ELSE ~IsSome(pairing[i].file)
        /\ ({p.pid : p \in ProcSet} = {100, 200, 300}
              /\ \A p \in ProcSet : Matched(p) /\ DirOf(p) = D_pq)
              => \A i \in 1..Len(pairing) :
                    pairing[i].jsonl_index =
                       CASE pairing[i].pid = 300 -> 0
                         [] pairing[i].pid = 100 -> 2
                         [] OTHER -> 1

\* witness of C4: the processes 300, 100, 200, returned in that order and all
\* in /p/q, were paired with the files b, a, c of store A
C4_Witness ==
    /\ last_call = "get_sessions"
    /\ log_store = Some(StoreA)
    /\ Len(proc_list) = 3
    /\ proc_list[1].pid = 300 /\ proc_list[2].pid = 100 /\ proc_list[3].pid = 200
    /\ \A i \in 1..3 : proc_list[i].cwd = Some(P_pq)
    /\ Len(pairing) = 3
    /\ \A i \in 1..3 :
          pairing[i].file =
             Some(FileName(FALSE, CASE pairing[i].pid = 300 -> "b"
                                    [] pairing[i].pid = 100 -> "a"
                                    [] OTHER -> "c", "jsonl"))

\* the Sessions of a list that are running
RunningOf(list) == SelectSeq(list, LAMBDA s : s.is_running)
\* the Sessions of a list that are not
HistoricalOf(list) == SelectSeq(list, LAMBDA s : ~s.is_running)

\* C5: in the list returned by one get_sessions call every (log directory,
\* rank) pair of the refresh gives at most one Session and every Session
\* comes from exactly one pair; no two pairs of a refresh are equal, so no
\* log file backs two running sessions.
C5_OneSessionPerPair ==
    last_call = "get_sessions" =>
        /\ \A i, j \in 1..Len(pairing) :
              i # j =>
                 /\ <<pairing[i].dir_name, pairing[i].jsonl_index>>
                       # <<pairing[j].dir_name, pairing[j].jsonl_index>>
                 /\ (IsSome(pairing[i].file) /\ pairing[i].dir_name = pairing[j].dir_name)
                       => pairing[i].file # pairing[j].file
        /\ Len(sessions) = Cardinality({i \in 1..Len(pairing) : HasSession(pairing[i])})
        /\ \A k \in 1..Len(sessions) :
              Cardinality({i \in 1..Len(pairing) :
                              pairing[i].session = Some(sessions[k])}) = 1

\* witness of C5: two processes in /p/q and /p-q, which encode to the same
\* log directory, each got a Session
C5_Witness ==
    /\ last_call = "get_sessions"
    /\ \E p, q \in ProcSet :
          /\ p.cwd = Some(P_pq) /\ q.cwd = Some(P_p_q)
          /\ \E i, j \in 1..Len(pairing) :
                /\ pairing[i].pid = p.pid /\ pairing[j].pid = q.pid
                /\ HasSession(pairing[i]) /\ HasSession(pairing[j])
    /\ Len(sessions) >= 2

\* C6: the list returned by get_all_sessions has pairwise distinct session
\* ids, whatever the processes, log files and index files.
C6_DistinctIds ==
    last_call = "get_all_sessions" =>
        \A i, j \in 1..Len(sessions) :
            i # j => sessions[i].id # sessions[j].id

\* the entries of the readable indexes of the store, as <<directory, position>>
IndexEntries ==
    IF ~IsSome(log_store) THEN {}
    ELSE {de \in (1..Len(log_store.val)) \X (1..MaxHist) :
             /\ log_store.val[de[1]].index.kind = "ok"
             /\ de[2] <= Len(log_store.val[de[1]].index.entries)}
EntryAt(de) == log_store.val[de[1]].index.entries[de[2]]

\* the ids of the running sessions of the refresh
RunningIds == {RunningOf(sessions)[i].id : i \in 1..Len(RunningOf(sessions))}

\* the entry is marked isSidechain or carries the id of a running session
Skipped(e) == e.is_sidechain \/ e.session_id \in RunningIds

\* the Session listed for an index entry is told by its log path, message
\* count, prompt, project and stamps
ListedAs(s, e) ==
    /\ ~s.is_running
    /\ s.id = e.session_id
    /\ s.jsonl_path = Some(e.full_path)
    /\ s.message_count = Some(e.message_count)
    /\ s.created_at = Some(e.created)
    /\ s.first_prompt = e.first_prompt
    /\ s.project_path = e.project_path
    /\ s.last_activity_secs = ParseIsoAge(e.modified, clock)

Listed(e) == \E k \in 1..Len(sessions) : ListedAs(sessions[k], e)

Candidates == {de \in IndexEntries : ~Skipped(EntryAt(de))}

C8_CapKeepsMostRecent ==
    last_call = "get_all_sessions" =>
        LET hist == HistoricalOf(sessions)
        IN /\ Len(hist) <= 20
           /\ \A i, j \in 1..Len(hist) :
                 i < j => hist[i].last_activity_secs <= hist[j].last_activity_secs
           /\ \A de \in Candidates :
                 ~Listed(EntryAt(de)) =>
                    \A i \in 1..Len(hist) :
                       ParseIsoAge(EntryAt(de).modified, clock)
                          >= hist[i].last_activity_secs

\* witness of C8: more than 20 candidates, the less recent ones first in
\* their index, of which 20 were listed
C8_Witness ==
    /\ last_call = "get_all_sessions"
    /\ Cardinality(Candidates) > 20
    /\ Len(HistoricalOf(sessions)) = 20
    /\ \E de \in Candidates :
          /\ de[2] = 1
          /\ ~Listed(EntryAt(de))

\* C9: in every list produced by get_sessions and get_all_sessions a running
\* Session has no jsonl_path, first_prompt, message_count or created_at, and
\* a Session that is not running has no pid, tmux_location or tmux_target.
C9_RunningExclusiveFields ==
    Refreshed =>
        \A k \in 1..Len(sessions) :
            LET s == sessions[k]
            IN IF s.is_running
               THEN /\ s.jsonl_path = None /\ s.first_prompt = None
                    /\ s.message_count = None /\ s.created_at = None
               ELSE /\ s.pid = None /\ s.tmux_location = None
                    /\ s.tmux_target = None

\* witness of C9: a list with a running session in a pane and a session that
\* is not running
C9_Witness ==
    /\ last_call = "get_all_sessions"
    /\ \E k \in 1..Len(sessions) :
          sessions[k].is_running /\ IsSome(sessions[k].tmux_location)
    /\ \E k \in 1..Len(sessions) :
          ~sessions[k].is_running /\ IsSome(sessions[k].jsonl_path)

\* the eligible file of dir with that name
FileNamed(dir, name) ==
    dir.files[CHOOSE i \in Eligible(dir) : dir.files[i].name = name]

\* the file the process is paired with, when it has one
FileOf(p) ==
    LET i == CHOOSE i \in 1..Len(pairing) : pairing[i].pid = p.pid
    IN FileNamed(DirNamed(log_store.val, DirOf(p)), pairing[i].file.val)

\* some record among the last 100 lines of the file carries a sessionId
TailHasId(f) ==
    \E i \in 1..Len(f.content.val) :
        /\ i > Len(f.content.val) - 100
        /\ f.content.val[i].ok
        /\ IsSome(f.content.val[i].session_id)

\* the directory of the process has fewer eligible files than its rank needs
NoFileAtRank(p) ==
    RankOf(p) >= Cardinality(Eligible(DirNamed(log_store.val, DirOf(p))))

\* the cases of C11 in which a process contributes no Session
Dropped(p) ==
    \/ ~Matched(p)
    \/ NoFileAtRank(p)
    \/ (IsSome(FileOf(p).content) /\ ~TailHasId(FileOf(p)))

SessionsOfPid(pid) == {k \in 1..Len(sessions) : sessions[k].pid = Some(pid)}

\* C11: a process whose working directory is unknown or encodes to no log
\* directory, whose directory has fewer eligible files than its rank
\* requires, or whose 100-line tail holds no record with a sessionId
\* contributes no Session; get_sessions returns all the same, with one
\* Session for every other process whose file can be read.
C11_DroppedSilently ==
    last_call = "get_sessions" =>
        \A p \in ProcSet :
            IF Dropped(p) THEN SessionsOfPid(p.pid) = {}
            ELSE IsSome(FileOf(p).content) => Cardinality(SessionsOfPid(p.pid)) = 1

\* witness of C11: of three processes one has no working directory, one is
\* paired with a log whose sessionId lies above the last 100 lines, and the
\* third got its Session
C11_Witness ==
    /\ last_call = "get_sessions"
    /\ \E p \in ProcSet : ~IsSome(p.cwd)
    /\ \E p \in ProcSet :
          /\ Matched(p) /\ ~NoFileAtRank(p)
          /\ Len(FileOf(p).content.val) > 100
          /\ ~TailHasId(FileOf(p))
    /\ Len(sessions) = 1

----------------------------------------------------------------------------
(* Further properties of the scan of the tail (SpecScan).                  *)

IsRecord(line) == line.ok

\* a record whose message has no content, reduced to its sessionId
WithoutEmptyMessage(line) ==
    IF line.ok /\ ~RecHasContent(line) THEN Msg(line.session_id, None) ELSE line

\* C12: a line of the tail that does not parse, or a record whose message
\* has no content, never aborts the scan: the session id, the status signals
\* and the last message obtained from the tail are those obtained from the
\* same tail with all unparsable lines removed, and those obtained when the
\* records without content are reduced to their sessionId.
C12_UnparsableLinesSkipped ==
    IsSome(sc_out) =>
        /\ sc_out.val.acc = ScanTail(SelectSeq(sc_lines, IsRecord))
        /\ sc_out.val.summary = TailSummary(SelectSeq(sc_lines, IsRecord), sc_recent)
        /\ sc_out.val.acc
              = ScanTail([i \in 1..Len(sc_lines) |-> WithoutEmptyMessage(sc_lines[i])])

\* witness of C12: the scan took the session id from the last line, passed
\* an unparsable line and took role and text from the line before it
C12_Witness ==
    /\ IsSome(sc_out)
    /\ sc_lines = <<L_user_hi, Garbage, L_summary>>
    /\ sc_out.val.acc.session_id = Some("s2")
    /\ sc_out.val.acc.last_role = Some("user")
    /\ sc_out.val.acc.last_message = Some(T_hi)

\* the loop body of session.rs:339-368 on every line from line i down to
\* the oldest, with no break
RECURSIVE ScanEveryLine(_, _, _)
ScanEveryLine(lines, i, acc) ==
    IF i = 0 THEN acc
    ELSE ScanEveryLine(lines, i - 1,
                       IF lines[i].ok THEN ScanRecord(acc, lines[i]) ELSE acc)

\* the Session fields that come from the scan's locals acc
SummaryOf(acc, recently_modified) ==
    [id |-> acc.session_id,
     status |-> DetermineStatus(acc.last_role, acc.has_tool_use, acc.has_tool_result,
                                acc.is_local_command, acc.is_interrupted,
                                recently_modified),
     last_message |-> acc.last_message]

\* C22: the scan that stops once session id, role and text are found ends
\* with the same session id, status signals and text, hence the same status,
\* as a scan that reads every line of the tail.
C22_EarlyStopIsFullScan ==
    IsSome(sc_out) =>
        /\ sc_out.val.acc = ScanEveryLine(sc_lines, Len(sc_lines), ScanStart)
        /\ IsSome(sc_out.val.summary) =>
              /\ Some(sc_out.val.summary.val.id)
                    = ScanEveryLine(sc_lines, Len(sc_lines), ScanStart).session_id
              /\ sc_out.val.summary.val.status
                    = SummaryOf(ScanEveryLine(sc_lines, Len(sc_lines), ScanStart),
                                sc_recent).status

\* the most recent record gave id, role and text, and an older record
\* carries another id, another role and another text
C22_Witness ==
    /\ IsSome(sc_out) /\ Len(sc_lines) >= 2
    /\ sc_lines[Len(sc_lines)] = L_user_hi
    /\ sc_lines[Len(sc_lines) - 1] = L_asst_text
    /\ sc_out.val.acc.session_id = Some("s1")
    /\ sc_out.val.acc.last_role = Some("user")
    /\ sc_out.val.acc.last_message = Some(T_hi)

\* the text is `whole`, or its first 100 characters and the marker "..."
IsPreviewOf(preview, whole) ==
    IF Len(whole) <= 100 THEN preview = whole
    ELSE /\ Len(preview) = 103
         /\ \A i \in 1..100 : preview[i] = whole[i]
         /\ \A i \in 101..103 : preview[i] = "."

\* C21: the preview of a running Session is the extracted text unchanged
\* when it has at most 100 characters, however many bytes, else its first
\* 100 characters followed by "..."; it never exceeds 103 characters.
C21_PreviewTruncation ==
    IsSome(sc_out) /\ IsSome(sc_out.val.summary) =>
        IF IsSome(sc_out.val.acc.last_message)
        THEN /\ IsSome(sc_out.val.summary.val.last_message)
             /\ IsPreviewOf(sc_out.val.summary.val.last_message.val,
                            sc_out.val.acc.last_message.val)
             /\ Len(sc_out.val.summary.val.last_message.val) <= 103
        ELSE sc_out.val.summary.val.last_message = None

\* a text of 101 characters was cut to 100 and the marker
C21_Witness ==
    /\ IsSome(sc_out) /\ IsSome(sc_out.val.summary)
    /\ sc_out.val.acc.last_message = Some(T_over)
    /\ sc_out.val.summary.val.last_message = Some(T_exact \o <<".", ".", ".">>)

\* texts of 100 characters and of 60 characters in 120 bytes were kept whole
C21_KeptWhole ==
    /\ IsSome(sc_out) /\ IsSome(sc_out.val.summary)
    /\ sc_out.val.summary.val.last_message \in {Some(T_exact), Some(T_wide)}

----------------------------------------------------------------------------
(* Further properties of the status classifier (SpecStatus).               *)

\* C24: the status returned by determine_status is the one returned for
\* the same role, the same recently_modified and any has_tool_use,
\* has_tool_result, is_local_command and is_interrupted with the same
\* (is_local_command or is_interrupted): the two tool flags have no
\* influence on it.
C24_ToolFlagsIgnored ==
    IsSome(ds_out) =>
        \A tool_use, tool_result, local, interrupted \in BOOLEAN :
            ((local \/ interrupted) = (ds_in.is_local_command \/ ds_in.is_interrupted))
               => ds_out.val = DetermineStatus(ds_in.role, tool_use, tool_result, local,
                                               interrupted, ds_in.recently_modified)

\* an assistant record with a tool call in a file not recently modified was
\* classified, as Waiting
C24_Witness ==
    /\ IsSome(ds_out)
    /\ ds_in.role = Some("assistant") /\ ds_in.has_tool_use /\ ~ds_in.has_tool_result
    /\ ~ds_in.recently_modified
    /\ ds_out.val = Waiting

----------------------------------------------------------------------------
(* Properties of the path codec (SpecCodec).                               *)

\* what the character at position i of the path without its leading
\* separator becomes: a separator before a dot "--", another separator "-",
\* a dot after a separator nothing, any other character itself
Encoded(rest, i) ==
    IF rest[i] = "/"
    THEN (IF i < Len(rest) /\ rest[i + 1] = "." THEN <<"-", "-">> ELSE <<"-">>)
    ELSE IF rest[i] = "." /\ i > 1 /\ rest[i - 1] = "/" THEN <<>>
    ELSE <<rest[i]>>

RECURSIVE EncodedUpTo(_, _)
EncodedUpTo(rest, i) ==
    IF i = 0 THEN <<>> ELSE EncodedUpTo(rest, i - 1) \o Encoded(rest, i)

IsAbsolute(path) == path # <<>> /\ Head(path) = "/"

\* C13: for every absolute path convert_path_to_dir_name returns "-"
\* followed by the path without its leading separator in which every
\* separator immediately followed by a dot is replaced by "--" (the dot
\* consumed) and every other separator by "-"; "/Users/me/Projects/foo"
\* gives "-Users-me-Projects-foo" and "/Users/me/Projects/.hidden/foo" gives
\* "-Users-me-Projects--hidden-foo"; the copy in log_view.rs returns the
\* same name for every path.
C13_DirNameEncoding ==
    IsSome(cp_out) =>
        /\ cp_out.val.session = cp_out.val.log_view
        /\ IsAbsolute(cp_path) =>
              cp_out.val.session
                 = <<"-">> \o EncodedUpTo(Tail(cp_path), Len(cp_path) - 1)
        /\ cp_path = P_foo =>
              cp_out.val.session
                 = <<"-", "U", "s", "e", "r", "s", "-", "m", "e", "-",
                     "P", "r", "o", "j", "e", "c", "t", "s", "-", "f", "o", "o">>
        /\ cp_path = P_hidden_foo =>
              cp_out.val.session
                 = <<"-", "U", "s", "e", "r", "s", "-", "m", "e", "-",
                     "P", "r", "o", "j", "e", "c", "t", "s", "-", "-",
                     "h", "i", "d", "d", "e", "n", "-", "f", "o", "o">>

\* witness of C13: "/a/./." was encoded: its first inner separator takes the
\* dot after it, the second one too
C13_Witness ==
    /\ IsSome(cp_out)
    /\ cp_path = <<"/", "a", "/", ".", "/">>
    /\ cp_out.val.session = <<"-", "a", "-", "-", "-">>

----------------------------------------------------------------------------
(* Further properties of the resolver (Spec).                               *)

\* the processes as a process source enumerating by ascending pid gives them
InPidOrder(processes) == SortBy(processes, LAMBDA a, b : a.pid <= b.pid)

\* s comes no later than t by the location string, a missing one first
LocationNotAfter(s, t) ==
    \/ ~IsSome(s.tmux_target)
    \/ IsSome(t.tmux_target) /\ StrLeq(s.tmux_target.val, t.tmux_target.val)

\* the location string is "session:windowIndex" of the location
TargetIsLocationString(s) ==
    IF IsSome(s.tmux_location)
    THEN s.tmux_target =
            Some(s.tmux_location.val.session \o <<":">> \o Decimal(s.tmux_location.val.window_index))
    ELSE s.tmux_target = None

\* C15: the list of get_sessions is in non-decreasing order of the location
\* string "session:windowIndex", sessions without a location first, and is
\* the list the same processes give in any other order of enumeration.
C15_OrderedByLocation ==
    last_call = "get_sessions" =>
        /\ \A i \in 1..Len(sessions) : TargetIsLocationString(sessions[i])
        /\ \A i, j \in 1..Len(sessions) : i < j => LocationNotAfter(sessions[i], sessions[j])
        /\ sessions = GetSessions(InPidOrder(proc_list), shell_of, panes, log_store, clock)

\* processes enumerated by ascending pid gave a list led by "m:10" and "m:2"
C15_Witness ==
    /\ last_call = "get_sessions"
    /\ Len(proc_list) >= 2 /\ proc_list = InPidOrder(proc_list)
    /\ \E i \in 1..Len(sessions) - 1 :
          /\ sessions[i].tmux_target = Some(<<"m", ":", "1", "0">>)
          /\ sessions[i + 1].tmux_target = Some(<<"m", ":", "2">>)

\* the pairs of the refresh made before pair i for the same log directory
EarlierInDir(i) == {j \in 1..(i - 1) : pairing[j].dir_name = pairing[i].dir_name}

\* C23: the rank of a process is the number of processes matched to its log
\* directory before it in the loop, whether or not they got a Session, so a
\* process after one that got none has the next rank and another file; a
\* process without working directory or without log directory takes part in
\* no pair and uses up no rank.
C23_RankCountsEveryMatch ==
    last_call = "get_sessions" =>
        /\ Len(pairing) = Cardinality({p \in ProcSet : Matched(p)})
        /\ \A i \in 1..Len(pairing) :
              /\ \E p \in ProcSet : Matched(p) /\ p.pid = pairing[i].pid
              /\ pairing[i].jsonl_index = Cardinality(EarlierInDir(i))
              /\ \A j \in EarlierInDir(i) :
                    /\ pairing[j].jsonl_index < pairing[i].jsonl_index
                    /\ IsSome(pairing[i].file) => pairing[j].file # pairing[i].file

\* of three processes the one with the largest pid has no working directory,
\* the next was paired at rank 0 and got no Session, and the last got its
\* Session from the file at rank 1
C23_Witness ==
    /\ last_call = "get_sessions"
    /\ Len(proc_list) = 3 /\ Len(pairing) = 2
    /\ \E p \in ProcSet : ~IsSome(p.cwd) /\ \A q \in ProcSet : q.pid <= p.pid
    /\ pairing[1].dir_name = pairing[2].dir_name
    /\ pairing[1].jsonl_index = 0 /\ IsSome(pairing[1].file) /\ ~HasSession(pairing[1])
    /\ pairing[2].jsonl_index = 1 /\ IsSome(pairing[2].file) /\ HasSession(pairing[2])

----------------------------------------------------------------------------
(* Properties of the ages of historical entries (SpecHist).                 *)

\* the Session comes from the index entry, whatever age it was given
ComesFrom(s, e) ==
    /\ ~s.is_running
    /\ s.id = e.session_id
    /\ s.jsonl_path = Some(e.full_path)
    /\ s.message_count = Some(e.message_count)
    /\ s.project_path = e.project_path

\* the positions of the list that hold the entry
PositionsOf(e) == {k \in 1..Len(sessions) : ComesFrom(sessions[k], e)}

Unparsable(e) == ~e.modified.rfc3339
InFuture(e) == e.modified.rfc3339 /\ e.modified.t > clock

\* the candidate entry is listed with the age given, unless the cap left it
\* out
ListedWithAge(e, age) ==
    /\ Cardinality(Candidates) <= HISTORY_LIMIT => PositionsOf(e) # {}
    /\ \A k \in PositionsOf(e) : sessions[k].last_activity_secs = age

\* the entry e is listed after every listed entry among `others`
ListedAfterAll(e, others) ==
    \A k \in PositionsOf(e) :
        \A df \in others : \A l \in PositionsOf(EntryAt(df)) : l < k

\* C20, as stated: an index entry whose modified timestamp does not parse
\* is listed like any other, with the age 999999, after every entry whose
\* timestamp parses; an entry whose timestamp lies in the future has age 0.
C20_UnparsableIsAncient ==
    last_call = "get_all_sessions" =>
        \A de \in Candidates :
            /\ Unparsable(EntryAt(de)) =>
                  /\ ListedWithAge(EntryAt(de), 999999)
                  /\ ListedAfterAll(EntryAt(de),
                                    {df \in Candidates : ~Unparsable(EntryAt(df))})
            /\ InFuture(EntryAt(de)) => ListedWithAge(EntryAt(de), 0)

\* What holds: the age 999999 and the age 0 are given as C20 says, no entry
\* is left out for its timestamp, and the entry that does not parse comes
\* after the entries modified less than 999999 seconds ago.
C20_SentinelAge ==
    last_call = "get_all_sessions" =>
        \A de \in Candidates :
            /\ Unparsable(EntryAt(de)) =>
                  /\ ListedWithAge(EntryAt(de), 999999)
                  /\ ListedAfterAll(EntryAt(de),
                                    {df \in Candidates :
                                        /\ ~Unparsable(EntryAt(df))
                                        /\ clock - EntryAt(df).modified.t < 999999})
            /\ InFuture(EntryAt(de)) => ListedWithAge(EntryAt(de), 0)

\* an entry that does not parse is listed before an entry modified more
\* than 999999 seconds ago
C20_SentinelBeforeOlder ==
    /\ last_call = "get_all_sessions"
    /\ \E de, df \in Candidates :
          /\ Unparsable(EntryAt(de))
          /\ ~Unparsable(EntryAt(df)) /\ clock - EntryAt(df).modified.t > 999999
          /\ \E k \in PositionsOf(EntryAt(de)) : \E l \in PositionsOf(EntryAt(df)) : k < l

----------------------------------------------------------------------------
(* Properties of the App (SpecApp).                                         *)

\* the session under the selection
SelectedSession == sessions[ap_selected + 1]

\* the log of a session: the file the resolver paired its process with at
\* the last refresh, or the path its index entry recorded
OwnLogPath(s) ==
    IF s.is_running
    THEN LET i == CHOOSE i \in 1..Len(pairing) : pairing[i].pid = s.pid.val
         IN <<pairing[i].dir_name, pairing[i].file.val>>
    ELSE s.jsonl_path.val

\* the modification time of the file at the path, None when it is gone
FilesAt(store, path) ==
    SelectSeq(DirNamed(store, path[1]).files, LAMBDA f : f.name = path[2])

MtimeAt(store, path) ==
    IF FilesAt(store, path) = <<>> THEN None ELSE FilesAt(store, path)[1].mtime

LightPassRan == ap_op' = "refresh_log_if_changed" /\ HasSelected(sessions, ap_selected)

\* what a light pass does on the modification time `current`: nothing when
\* it equals the cached one, else cache it and parse
LightPassOn(current) ==
    IF current = ap_last_log_mtime
    THEN ~ap_effect'.parsed /\ UNCHANGED <<ap_log_messages, ap_last_log_mtime>>
    ELSE ap_effect'.parsed /\ ap_last_log_mtime' = current

\* C14, as stated: a light pass compares the modification time of the
\* selected session's log file with the cached value; equal, nothing is
\* parsed and log_messages and the cache stay; different, the cache takes the
\* new time and the log is parsed again.
C14_LightPassOnOwnLog ==
    [][LightPassRan => LightPassOn(MtimeAt(log_store.val, OwnLogPath(SelectedSession)))]_vars

\* What the code compares is the modification time of the most recently
\* modified log of the selected session's project directory: on that time
\* the light pass behaves as C14 says, and the messages it parses are that
\* file's.
C14_LightPassOnNewestLog ==
    [][LightPassRan =>
          /\ LightPassOn(GetLogMtime(SelectedSession.project_path, log_store))
          /\ ap_effect'.parsed =>
                ap_log_messages' = ParseLogMessages(SelectedSession.project_path, log_store)]_vars

\* a light pass found the selected session's own log older than the log it
\* had cached the time of, and parsed nothing
C14_OwnLogNotCompared ==
    /\ ap_op = "refresh_log_if_changed" /\ HasSelected(sessions, ap_selected)
    /\ ~ap_effect.parsed
    /\ MtimeAt(log_store.val, OwnLogPath(SelectedSession)) # ap_last_log_mtime

\* a light pass parsed the log again after a write to it
C14_Reparsed == ap_op = "refresh_log_if_changed" /\ ap_effect.parsed

\* a handler that refreshed the list in the Running view has just run: the
\* processes, the store and the pane map are those it saw
RefreshedRunning == ap_effect.heavy = 1 /\ ap_view_mode = Running

\* a session with its location fields cleared
Unlocated(s) == [s EXCEPT !.tmux_location = None, !.tmux_target = None]

\* the two lists hold the same sessions but for the location fields
SameButLocation(list, other) ==
    /\ Len(list) = Len(other)
    /\ {Unlocated(list[i]) : i \in 1..Len(list)} = {Unlocated(other[i]) : i \in 1..Len(other)}

\* a pane map that knows the shell of pid 100 only
OnePane == [sp \in {101} |-> TmuxLocation(<<"z">>, 3, <<"w">>)]

\* C16: when the tmux query fails (no process started, or a non-zero exit)
\* get_pane_map returns the empty map and get_sessions returns sessions
\* without a location; whatever the pane map, the list holds the same
\* sessions (ids, statuses, last messages, pids) and differs only in the
\* location fields and the order.
C16_PanesOnlyLocate ==
    RefreshedRunning =>
        /\ ~(tmux_output.started /\ tmux_output.success) =>
              /\ panes = NoPanes
              /\ \A i \in 1..Len(sessions) :
                    sessions[i].tmux_location = None /\ sessions[i].tmux_target = None
        /\ \A pane_map \in {NoPanes, AllPanes, OnePane} :
              SameButLocation(sessions,
                              GetSessions(proc_list, shell_of, pane_map, log_store, clock))

\* a refresh listed two sessions although tmux could not be started
C16_Witness ==
    /\ RefreshedRunning
    /\ ~tmux_output.started
    /\ Len(sessions) = 2

\* C17: every heavy pass, one call of refresh_sessions in either view mode,
\* fetches the process list at most once and the pane map at most once,
\* however many processes and sessions there are; no handler makes more than
\* one heavy pass and the other handlers fetch nothing.
C17_OneFetchPerHeavyPass ==
    /\ ap_effect.heavy <= 1
    /\ ap_effect.proc_fetches <= ap_effect.heavy
    /\ ap_effect.pane_fetches <= ap_effect.heavy

\* a heavy pass in the All view over two processes listed four sessions
C17_Witness ==
    /\ ap_effect.heavy = 1 /\ ap_view_mode = All
    /\ Len(proc_list) = 2 /\ Len(pairing) = 2 /\ Len(sessions) = 4
    /\ ap_effect.proc_fetches = 1 /\ ap_effect.pane_fetches = 1

\* the list refresh_sessions computes on the processes and the store a
\* handler leaves
ListAfter ==
    IF ap_view_mode' = Running
    THEN GetSessions(proc_list', shell_of', panes', log_store', clock')
    ELSE GetAllSessions(proc_list', shell_of', panes', log_store', clock')

\* C19: a file is removed only by delete_selected, only the one at the
\* recorded path of the selected session and only when that session is not
\* running; a termination signal is sent only by kill_selected, only to the
\* pid of the selected session, which is then a running one; either is
\* followed by a refresh of the list, whether the OS call succeeded or not.
C19_GuardedMutations ==
    [][/\ IsSome(ap_effect'.removed) =>
             /\ ap_op' = "delete_selected"
             /\ HasSelected(sessions, ap_selected)
             /\ ~SelectedSession.is_running
             /\ SelectedSession.jsonl_path = ap_effect'.removed
       /\ IsSome(ap_effect'.killed) =>
             /\ ap_op' = "kill_selected"
             /\ HasSelected(sessions, ap_selected)
             /\ SelectedSession.is_running
             /\ SelectedSession.pid = ap_effect'.killed
       /\ IsSome(ap_effect'.removed) \/ IsSome(ap_effect'.killed) =>
             /\ ap_effect'.heavy = 1
             /\ sessions' = ListAfter
             /\ ~ap_should_quit'
       /\ ap_op' = "delete_selected" /\ HasSelected(sessions, ap_selected)
             /\ SelectedSession.is_running => log_store' = log_store
       /\ ap_op' = "kill_selected" /\ HasSelected(sessions, ap_selected)
             /\ ~SelectedSession.is_running => proc_list' = proc_list]_vars

\* delete_selected called remove_file, the file is still there, and the
\* list was refreshed all the same
C19_Witness ==
    /\ ap_op = "delete_selected" /\ IsSome(ap_effect.removed)
    /\ MtimeAt(log_store.val, ap_effect.removed.val) # None
    /\ ap_effect.heavy = 1

\* kill_selected signalled the second session of the list, whose process
\* went away
C19_Killed ==
    /\ ap_op = "kill_selected" /\ ap_effect.killed = Some(100)
    /\ Len(proc_list) = 1 /\ proc_list[1].pid = 200

\* delete_selected and kill_selected were called on a session of the other
\* kind and did nothing
C19_Refused ==
    /\ ap_op \in {"delete_selected", "kill_selected"}
    /\ ap_effect.heavy = 0 /\ HasSelected(sessions, ap_selected)

\* C25: after every operation of the App the selection is below the
\* number of sessions whenever there is a session, and select_next from the
\* last session gives the first, select_prev from the first gives the last.
C25_SelectionInBounds ==
    [][/\ sessions' # <<>> => ap_selected' < Len(sessions')
       /\ (ap_op' = "select_next" /\ sessions # <<>>)
             => ap_selected' = IF ap_selected = Len(sessions) - 1 THEN 0 ELSE ap_selected + 1
       /\ (ap_op' = "select_prev" /\ sessions # <<>>)
             => ap_selected' = IF ap_selected = 0 THEN Len(sessions) - 1 ELSE ap_selected - 1]_vars

\* the list went from four sessions, the last one selected, to fewer: the
\* selection is on the last of those left
C25_Witness ==
    /\ ap_op = "toggle_view_mode" /\ ap_view_mode = Running
    /\ Len(sessions) = 2 /\ ap_selected = 1
    /\ ap_log_messages # <<>>

\* select_next has wrapped from the last session to the first
C25_WrappedNext == ap_op = "select_next" /\ Len(sessions) >= 2 /\ ap_selected = 0

\* select_prev has wrapped from the first session to the last
C25_WrappedPrev ==
    ap_op = "select_prev" /\ Len(sessions) >= 2 /\ ap_selected = Len(sessions) - 1

\* the list has become empty, and has grown again from empty
C25_Emptied == ap_op = "kill_selected" /\ sessions = <<>>
C25_Regrown ==
    ap_op = "toggle_view_mode" /\ proc_list = <<>> /\ sessions # <<>> /\ ap_view_mode = All

\* the messages of the log at the path, none when the file is gone
MessagesAt(store, path) ==
    IF FilesAt(store, path) = <<>> THEN <<>>
    ELSE MessagesOfPick(Some(FilesAt(store, path)[1]))

\* the modification times the log at the path has had: the one it started
\* with and the one it has now
TimesAt(path) == {MtimeAt(StoreP, path), MtimeAt(log_store.val, path)}

\* C26, as stated: once the loop runs, the displayed log_messages are those
\* of the selected session's log and the cached modification time is one of
\* that log, and with no session selected the log is empty and the cache
\* None.
C26_LogOfSelected ==
    ap_op # "new" =>
        IF HasSelected(sessions, ap_selected)
        THEN /\ ap_log_messages = MessagesAt(log_store.val, OwnLogPath(SelectedSession))
             /\ ap_last_log_mtime \in TimesAt(OwnLogPath(SelectedSession))
        ELSE ap_log_messages = <<>> /\ ap_last_log_mtime = None

\* What holds: every handler that sets the list or the selection leaves the
\* messages and the modification time of the most recently modified log of
\* the selected session's project directory, read from the store as the
\* handler saw it, and with no session selected the log is empty and the
\* cache None.
C26_RereadOnChange ==
    [][(ap_effect'.heavy = 1 \/ sessions' # sessions \/ ap_selected' # ap_selected) =>
          IF HasSelected(sessions', ap_selected')
          THEN /\ ap_log_messages' =
                     ParseLogMessages(sessions'[ap_selected' + 1].project_path, log_store')
               /\ ap_last_log_mtime' =
                     GetLogMtime(sessions'[ap_selected' + 1].project_path, log_store')
          ELSE ap_log_messages' = <<>> /\ ap_last_log_mtime' = None]_vars

C26_NoSelectionNoLog ==
    ~HasSelected(sessions, ap_selected) => ap_log_messages = <<>> /\ ap_last_log_mtime = None

\* the selection moved to a session whose own log is not the newest of its
\* directory: the messages shown are not its log's
C26_OtherSessionsLog ==
    /\ ap_op = "select_next" /\ HasSelected(sessions, ap_selected)
    /\ SelectedSession.is_running
    /\ ap_log_messages # MessagesAt(log_store.val, OwnLogPath(SelectedSession))
    /\ ap_last_log_mtime \notin TimesAt(OwnLogPath(SelectedSession))

\* the list became empty with a log on display: the log was cleared
C26_Cleared ==
    ap_op = "kill_selected" /\ sessions = <<>> /\ ap_log_messages = <<>>

----------------------------------------------------------------------------
(* Properties of the process source (SpecFind).                             *)

\* the process of the snapshot that the returned process r stands for
Snapshot(r) == pf_table[r.pid]

\* the parent of p is in the snapshot
HasParent(p) == IsSome(p.parent) /\ p.parent.val \in DOMAIN pf_table

\* some argument of the command line holds the wrapper's name
NamesWrapper(cmd) == \E i \in 1..Len(cmd) : Contains(cmd[i], S_acp)

\* C18: no process that find_claude_processes returns has a parent that is
\* itself matched as a Claude process, nor a parent whose command line
\* contains "claude-code-acp", and none is the monitor (a process whose name
\* contains "claude-watch").
C18_NoSubAgents ==
    IsSome(pf_result) =>
        \A i \in 1..Len(pf_result.val) :
            /\ HasParent(Snapshot(pf_result.val[i])) =>
                  /\ Snapshot(pf_result.val[i]).parent.val \notin ClaudePids(pf_table)
                  /\ ~NamesWrapper(pf_table[Snapshot(pf_result.val[i]).parent.val].cmd)
            /\ ~Contains(Snapshot(pf_result.val[i]).name, S_watch)

\* of a Claude process, its sub-agent, and a Claude process started by the
\* wrapper, only the first was returned
C18_Witness ==
    /\ IsSome(pf_result)
    /\ IsClaudeProcess(pf_table[1]) /\ ~IsSome(pf_table[1].parent)
    /\ IsClaudeProcess(pf_table[2]) /\ pf_table[2].parent = Some(1)
    /\ pf_table[3].parent = Some(GonePid) /\ Contains(pf_table[3].name, S_watch)
    /\ pf_table[3].cmd = <<S_claude>>
    /\ pf_result.val = <<ClaudeProcess(1, Some(P_pq), 0)>>

\* a Claude process whose parent is the wrapper was left out
C18_WrapperChild ==
    /\ IsSome(pf_result)
    /\ NamesWrapper(pf_table[1].cmd)
    /\ IsClaudeProcess(pf_table[2]) /\ pf_table[2].parent = Some(1)
    /\ \A i \in 1..Len(pf_result.val) : pf_result.val[i].pid # 2


============================================================================
